---- MODULE Spec2Model ----
(***************************************************************************)
(* A model of rattler_repodata_gateway::fetch::fetch_repo_data: the        *)
(* on-disk repodata cache (index file + state file, guarded by a lock      *)
(* file per cache key), cache validation, the variant probes, the          *)
(* conditional GET, the streaming download and the state update.           *)
(* A second, independent part models the serde impls of                    *)
(* rattler_conda_types::conda_lock::PackageHashes.                         *)
(*                                                                         *)
(* Conventions.                                                            *)
(*   Option<T> is a set with at most one element: None == {},              *)
(*   Some(x) == {x}.                                                       *)
(*   A URL is its path, a sequence of segments: "/ch/a/" is                *)
(*   <<"ch","a","">>, "/ch/a/repodata.json" is <<"ch","a","repodata.json">>*)
(*   Time is an integer number of days; the call starts at day 0.          *)
(*   A byte is [layers, b]: b is the payload, layers the stack of          *)
(*   encodings still wrapped around it (outermost first).                  *)
(***************************************************************************)
EXTENDS Integers, Sequences, FiniteSets, TLC

VARIABLES
    now,         \* the wall clock (SystemTime::now / Utc::now)
    index,       \* cache key -> Option<[content, mtime]>: <key>.json
    statefile,   \* cache key -> [exists, parsed]: <key>.state.json
    lock,        \* cache key -> Option<fetch>: holder of <key>.lock
    temps,       \* the fetches whose NamedTempFile exists in the cache dir
    server,      \* what the remote serves and how it answers
    fetch,       \* fetch -> the locals of that call of fetch_repo_data
    detached,    \* fetch -> the spawn_blocking closure that outlived it
    unlocked,    \* the file accesses made by a fetch not holding the lock
    document,    \* Option<the hash mapping of a conda-lock file, as written>
    package_hashes \* Option<Result<PackageHashes>>: the value in memory

vars == <<now, index, statefile, lock, temps, server, fetch, detached, unlocked, document, package_hashes>>

----------------------------------------------------------------------------
(* Bounds of the model.                                                    *)

\* The clock advances at most to this day.
MaxClock == 1

\* A response body arrives in at most this many chunks.
MaxChunks == 2

(* Program constants.                                                      *)

\* chrono::Duration::days(14): how long a variant probe is remembered.
ExpirationDays == 14

----------------------------------------------------------------------------
(* Option<T>                                                               *)

None == {}

Some(x) == {x}

IsSome(o) == o # {}

Unwrap(o) == CHOOSE x \in o : TRUE

----------------------------------------------------------------------------
(* URLs                                                                    *)

StripTrailingSlashes(p) ==
    LET n == IF \E i \in 1..Len(p) : p[i] # ""
             THEN CHOOSE i \in 1..Len(p) :
                      /\ p[i] # ""
                      /\ \A j \in (i+1)..Len(p) : p[j] = ""
             ELSE 0
    IN SubSeq(p, 1, n)

\* A normalisation that would add a slash to whatever it is given.
append_slash(url) == Append(url, "")

\* path.trim_end_matches('/') followed by set_path("{path}/").
normalize_subdir_url(url) == Append(StripTrailingSlashes(url), "")

\* Url::join(name) on a URL: the last path segment is replaced by name.
Join(url, name) == Append(SubSeq(url, 1, Len(url) - 1), name)

\* The directory of the URL stored in the state ("Do the URLs match?").
cached_subdir_url(url) ==
    IF url[Len(url)] = ""
    THEN url
    ELSE Append(SubSeq(url, 1, Len(url) - 1), "")

\* crate::utils::url_to_cache_filename: a pure, injective function.
url_to_cache_filename(url) == <<"key", url>>

----------------------------------------------------------------------------
(* Bytes, encodings and digests                                            *)

PlainByte(b) == [layers |-> <<>>, b |-> b]

\* What a server does to serve content under an encoding.
EncodeByte(enc, byte) ==
    IF enc = "Passthrough"
    THEN byte
    ELSE [byte EXCEPT !.layers = <<enc>> \o @]

\* AsyncEncoding::decode on one byte: Some(byte) or None on a decode error.
DecodeByte(enc, byte) ==
    IF enc = "Passthrough"
    THEN Some(byte)
    ELSE IF byte.layers # <<>> /\ Head(byte.layers) = enc
         THEN Some([byte EXCEPT !.layers = Tail(@)])
         ELSE None

\* The bytes a compressed stream starts with (its magic number and frame
\* header): a compressed stream is longer or shorter than what it encodes.
Header(enc) ==
    PlainByte(CASE enc = "Zst" -> "zst-header"
                [] enc = "Bz2" -> "bz2-header"
                [] OTHER -> "gzip-header")

\* A whole stream as the server encodes it.
EncodeAll(enc, bytes) ==
    IF enc = "Passthrough"
    THEN bytes
    ELSE <<Header(enc)>> \o [i \in 1..Len(bytes) |-> EncodeByte(enc, bytes[i])]

DecodeOk(enc, bytes) == \A i \in 1..Len(bytes) : IsSome(DecodeByte(enc, bytes[i]))

DecodeAll(enc, bytes) == [i \in 1..Len(bytes) |-> Unwrap(DecodeByte(enc, bytes[i]))]

\* The number of bytes a decoder has put out after n bytes of its input.
DecodedCount(enc, n) ==
    IF enc = "Passthrough" \/ n = 0 THEN n ELSE n - 1

\* AsyncEncoding::decode on the next bytes of a stream of which n bytes were
\* read before: Some(output), or None on a decode error. A decoder other
\* than Passthrough first reads the header of its format.
DecodeStream(enc, n, bytes) ==
    IF enc = "Passthrough" \/ bytes = <<>>
    THEN Some(bytes)
    ELSE LET body == IF n = 0 THEN Tail(bytes) ELSE bytes
         IN IF (n = 0 /\ Head(bytes) # Header(enc)) \/ ~ DecodeOk(enc, body)
            THEN None
            ELSE Some(DecodeAll(enc, body))

\* BLAKE2s-256 of a byte sequence (collision free).
Blake2(bytes) == <<"blake2s", bytes>>

----------------------------------------------------------------------------
(* The state record (RepoDataState) and its parts                          *)

\* Expiring::value(expiration): the value while it is fresh, else None.
ExpiringValue(e, expiration, t) ==
    IF t - e.last_checked <= expiration THEN Some(e.value) ELSE None

\* CacheHeaders::add_to_request: the conditional headers of a request.
add_to_request(cache_headers) ==
    {<<"If-None-Match", v>> : v \in cache_headers.etag}
        \cup {<<"If-Modified-Since", v>> : v \in cache_headers.last_modified}

\* CacheHeaders::from(&response).
CacheHeadersFrom(response) ==
    [etag |-> response.etag,
     last_modified |-> response.last_modified,
     cache_control |-> response.cache_control]

\* cache_control::CacheControl::from_value on the header values of the model.
CacheControlFromValue(v) ==
    CASE v = "public, max-age=1" -> Some([cachability |-> Some("Public"), max_age |-> Some(1)])
      [] v = "public, max-age=0" -> Some([cachability |-> Some("Public"), max_age |-> Some(0)])
      [] v = "private, max-age=1" -> Some([cachability |-> Some("Private"), max_age |-> Some(1)])
      [] v = "public" -> Some([cachability |-> Some("Public"), max_age |-> None])
      [] v = "max-age=1" -> Some([cachability |-> None, max_age |-> Some(1)])
      [] OTHER -> None

----------------------------------------------------------------------------
(* validate_cached_state                                                   *)

InvalidOrMissing == [class |-> "InvalidOrMissing", state |-> None]

Mismatched(s) == [class |-> "Mismatched", state |-> Some(s)]

OutOfDate(s) == [class |-> "OutOfDate", state |-> Some(s)]

UpToDate(s) == [class |-> "UpToDate", state |-> Some(s)]

\* The outcomes of the file system calls of one validation: all succeed, or
\* std::fs::metadata fails, or Metadata::modified fails, or reading the file
\* for its digest fails.
IoOutcomes == {"ok", "stat_err", "mtime_err", "read_err"}

\* A freshness verdict that would take a cache of exactly max-age for stale.
CacheControlVerdictStrict(cache_state, mtime, t) ==
    IF t < mtime
    THEN Mismatched(cache_state)
    ELSE LET cache_age == t - mtime
             cc == cache_state.cache_headers.cache_control
         IN IF cc = None
            THEN OutOfDate(cache_state)
            ELSE LET parsed == CacheControlFromValue(Unwrap(cc))
                 IN IF parsed = None
                    THEN Mismatched(cache_state)
                    ELSE IF /\ Unwrap(parsed).cachability = Some("Public")
                            /\ IsSome(Unwrap(parsed).max_age)
                         THEN IF cache_age >= Unwrap(Unwrap(parsed).max_age)
                              THEN OutOfDate(cache_state)
                              ELSE UpToDate(cache_state)
                         ELSE OutOfDate(cache_state)

\* A freshness verdict that would take a file dated in the future for new.
CacheControlVerdictSaturating(cache_state, mtime, t) ==
    LET cache_age == IF t < mtime THEN 0 ELSE t - mtime
        cc == cache_state.cache_headers.cache_control
    IN IF cc = None
       THEN OutOfDate(cache_state)
       ELSE LET parsed == CacheControlFromValue(Unwrap(cc))
            IN IF parsed = None
               THEN Mismatched(cache_state)
               ELSE IF /\ Unwrap(parsed).cachability = Some("Public")
                       /\ IsSome(Unwrap(parsed).max_age)
                    THEN IF cache_age > Unwrap(Unwrap(parsed).max_age)
                         THEN OutOfDate(cache_state)
                         ELSE UpToDate(cache_state)
                    ELSE OutOfDate(cache_state)

\* The freshness verdict once the file is bound to the state (lines 702-749).
CacheControlVerdict(cache_state, mtime, t) ==
    IF t < mtime
    THEN Mismatched(cache_state)
    ELSE LET cache_age == t - mtime
             cc == cache_state.cache_headers.cache_control
         IN IF cc = None
            THEN OutOfDate(cache_state)
            ELSE LET parsed == CacheControlFromValue(Unwrap(cc))
                 IN IF parsed = None
                    THEN Mismatched(cache_state)
                    ELSE IF /\ Unwrap(parsed).cachability = Some("Public")
                            /\ IsSome(Unwrap(parsed).max_age)
                         THEN IF cache_age > Unwrap(Unwrap(parsed).max_age)
                              THEN OutOfDate(cache_state)
                              ELSE UpToDate(cache_state)
                         ELSE OutOfDate(cache_state)

\* A binding check that would also compare the size when there is a hash.
BindingWithSize(cache_state, file, io) ==
    /\ Len(file.content) = cache_state.cache_size
    /\ IsSome(cache_state.blake2_hash) =>
          (io # "read_err" /\ Blake2(file.content) = Unwrap(cache_state.blake2_hash))

\* Whether the state record describes the file on disk (lines 671-700).
BindingHolds(cache_state, file, io) ==
    IF IsSome(cache_state.blake2_hash)
    THEN /\ io # "read_err"
         /\ Blake2(file.content) = Unwrap(cache_state.blake2_hash)
    ELSE LET cache_last_modified == file.mtime
         IN ~ (\/ Len(file.content) # cache_state.cache_size
               \/ Some(cache_last_modified) # Some(file.mtime))

\* A validation that would check the binding before the URL.
validate_binding_first(idx, st, subdir_url, t, io) ==
    IF idx = None \/ io = "stat_err"
    THEN InvalidOrMissing
    ELSE IF ~ st.exists \/ st.parsed = None
    THEN InvalidOrMissing
    ELSE LET cache_state == Unwrap(st.parsed)
             file == Unwrap(idx)
         IN IF io = "mtime_err"
            THEN Mismatched(cache_state)
            ELSE IF ~ BindingHolds(cache_state, file, io)
            THEN Mismatched(cache_state)
            ELSE IF cached_subdir_url(cache_state.url) # subdir_url
            THEN InvalidOrMissing
            ELSE CacheControlVerdict(cache_state, file.mtime, t)

\* validate_cached_state (lines 609-750). io is the file-system error the
\* validation meets, if any.
validate_cached_state(idx, st, subdir_url, t, io) ==
    IF idx = None \/ io = "stat_err"
    THEN InvalidOrMissing
    ELSE IF ~ st.exists \/ st.parsed = None
    THEN InvalidOrMissing
    ELSE LET cache_state == Unwrap(st.parsed)
             file == Unwrap(idx)
         IN IF cached_subdir_url(cache_state.url) # subdir_url
            THEN InvalidOrMissing
            ELSE IF io = "mtime_err"
            THEN Mismatched(cache_state)
            ELSE IF ~ BindingHolds(cache_state, file, io)
            THEN Mismatched(cache_state)
            ELSE CacheControlVerdict(cache_state, file.mtime, t)

----------------------------------------------------------------------------
(* The remote server                                                    *)

\* The file name and the content encoding of each variant (lines 259-265
\* and 332-338).
VariantFile(variant) ==
    CASE variant = "Zst" -> "repodata.json.zst"
      [] variant = "Bz2" -> "repodata.json.bz2"
      [] OTHER -> "repodata.json"

\* How the server treats a GET:
\*   normal       200 with the file, 304 to a matching conditional request,
\*                404 for a file it does not have;
\*   unencoded    as normal, but the body of a .zst/.bz2 file is not compressed;
\*   always304    304 whatever the request;
\*   status300, status404, status500   that status, with a short body;
\*   down         the connection fails.
ServerModes ==
    {"normal", "unencoded", "always304", "status300", "status404", "status500", "down"}

\* The body as sent: the first chunks - 1 bytes one per chunk, the rest in
\* the last chunk.
RECURSIVE SplitBody(_, _)
SplitBody(wire, chunks) ==
    IF wire = <<>>
    THEN <<>>
    ELSE IF chunks <= 1
    THEN <<wire>>
    ELSE <<SubSeq(wire, 1, 1)>> \o SplitBody(Tail(wire), chunks - 1)

WireLength(chunks) == LET RECURSIVE Sum(_)
                          Sum(cs) == IF cs = <<>> THEN 0 ELSE Len(Head(cs)) + Sum(Tail(cs))
                      IN Sum(chunks)

ServerHas(srv, file) ==
    CASE file = "repodata.json.zst" -> srv.zst
      [] file = "repodata.json.bz2" -> srv.bz2
      [] OTHER -> TRUE

FileEncoding(srv, file) ==
    CASE srv.mode = "unencoded" -> "Passthrough"
      [] file = "repodata.json.zst" -> "Zst"
      [] file = "repodata.json.bz2" -> "Bz2"
      [] OTHER -> "Passthrough"

BodyResponse(srv, status, file) ==
    LET encoded == EncodeAll(FileEncoding(srv, file), srv.content)
        wire == IF srv.gzip THEN EncodeAll("GZip", encoded) ELSE encoded
    IN [status |-> status,
        etag |-> srv.etag,
        last_modified |-> srv.last_modified,
        cache_control |-> srv.cache_control,
        content_encoding |-> IF srv.gzip THEN Some("gzip") ELSE None,
        content_length |-> IF srv.sends_length THEN Some(Len(wire)) ELSE None,
        chunks |-> SplitBody(wire, srv.chunks)]

EmptyResponse(srv, status) ==
    [status |-> status,
     etag |-> srv.etag,
     last_modified |-> srv.last_modified,
     cache_control |-> srv.cache_control,
     content_encoding |-> None,
     content_length |-> None,
     chunks |-> <<>>]

\* Whether the request's validators match the server's copy.
NotModified(srv, request) ==
    \/ \E v \in srv.etag : <<"If-None-Match", v>> \in request.headers
    \/ \E v \in srv.last_modified : <<"If-Modified-Since", v>> \in request.headers

\* The answer to a GET: None when the connection fails.
GetAnswer(srv, request) ==
    LET file == request.url[Len(request.url)]
    IN CASE srv.mode = "down" -> None
         [] srv.mode = "always304" -> Some(EmptyResponse(srv, 304))
         [] srv.mode = "status300" -> Some(BodyResponse(srv, 300, file))
         [] srv.mode = "status404" -> Some(EmptyResponse(srv, 404))
         [] srv.mode = "status500" -> Some(EmptyResponse(srv, 500))
         [] OTHER ->
              IF ~ ServerHas(srv, file)
              THEN Some(EmptyResponse(srv, 404))
              ELSE IF NotModified(srv, request)
              THEN Some(EmptyResponse(srv, 304))
              ELSE Some(BodyResponse(srv, 200, file))

\* The answer to a HEAD.
HeadAnswer(srv, file) ==
    CASE srv.mode = "down" -> "network_error"
      [] srv.mode \in {"status404", "status500"} -> "status_error"
      [] OTHER -> IF ServerHas(srv, file) THEN "success" ELSE "status_error"

----------------------------------------------------------------------------
(* fetch_repo_data: the pure parts                                         *)

Fetches == {"f1", "f2"}

CacheActions == {"CacheOrFetch", "UseCacheOnly", "ForceCacheOnly", "NoCache"}

SubdirUrls == {<<"ch", "a", "">>, <<"ch", "b", "">>, <<"ch", "", "a", "">>}

Keys == {url_to_cache_filename(u) : u \in SubdirUrls}

\* The same match with one arm changed: UseCacheOnly takes the arm of
\* ForceCacheOnly, so a stale cache is returned.
DispatchStaleForUseCacheOnly(validated, cache_action) ==
    IF \/ validated.class = "UpToDate"
       \/ validated.class = "OutOfDate" /\ cache_action \in {"UseCacheOnly", "ForceCacheOnly"}
    THEN [do |-> "return", state |-> validated.state]
    ELSE IF cache_action \in {"UseCacheOnly", "ForceCacheOnly"}
    THEN [do |-> "fail", state |-> None]
    ELSE [do |-> "continue", state |-> validated.state]

\* The same match with one arm changed: ForceCacheOnly returns a state that
\* does not bind to the file.
DispatchMismatchedForForceCacheOnly(validated, cache_action) ==
    IF \/ validated.class = "UpToDate"
       \/ validated.class \in {"OutOfDate", "Mismatched"} /\ cache_action = "ForceCacheOnly"
    THEN [do |-> "return", state |-> validated.state]
    ELSE IF cache_action \in {"UseCacheOnly", "ForceCacheOnly"}
    THEN [do |-> "fail", state |-> None]
    ELSE [do |-> "continue", state |-> validated.state]

\* The same match with one arm changed: without a cache, UseCacheOnly and
\* ForceCacheOnly go on to the download.
DispatchFetchForCacheOnly(validated, cache_action) ==
    IF \/ validated.class = "UpToDate"
       \/ validated.class = "OutOfDate" /\ cache_action = "ForceCacheOnly"
    THEN [do |-> "return", state |-> validated.state]
    ELSE IF /\ cache_action \in {"UseCacheOnly", "ForceCacheOnly"}
            /\ validated.class # "InvalidOrMissing"
    THEN [do |-> "fail", state |-> None]
    ELSE [do |-> "continue", state |-> validated.state]

\* The same match with one arm changed: CacheOrFetch refreshes a cache that
\* is up to date.
DispatchRefreshForCacheOrFetch(validated, cache_action) ==
    IF \/ validated.class = "UpToDate" /\ cache_action # "CacheOrFetch"
       \/ validated.class = "OutOfDate" /\ cache_action = "ForceCacheOnly"
    THEN [do |-> "return", state |-> validated.state]
    ELSE IF cache_action \in {"UseCacheOnly", "ForceCacheOnly"}
    THEN [do |-> "fail", state |-> None]
    ELSE [do |-> "continue", state |-> validated.state]

\* The match on (cache_state, options.cache_action) of lines 192-236:
\* return the cached state, fail with NoCacheAvailable, or go on with the
\* previous state (if any).
Dispatch(validated, cache_action) ==
    CASE validated.class = "UpToDate" ->
             [do |-> "return", state |-> validated.state]
      [] validated.class = "OutOfDate" /\ cache_action = "ForceCacheOnly" ->
             [do |-> "return", state |-> validated.state]
      [] validated.class = "OutOfDate" /\ cache_action = "UseCacheOnly" ->
             [do |-> "fail", state |-> None]
      [] validated.class = "OutOfDate" ->
             [do |-> "continue", state |-> validated.state]
      [] validated.class = "Mismatched"
            /\ cache_action \in {"UseCacheOnly", "ForceCacheOnly"} ->
             [do |-> "fail", state |-> None]
      [] validated.class = "Mismatched" ->
             [do |-> "continue", state |-> validated.state]
      [] validated.class = "InvalidOrMissing"
            /\ cache_action \in {"UseCacheOnly", "ForceCacheOnly"} ->
             [do |-> "fail", state |-> None]
      [] OTHER ->
             [do |-> "continue", state |-> None]

\* check_valid_download_target: a HEAD whose status is a success.
\* A probe that would take any response for a success.
check_any_response(answer) == answer # "network_error"

\* check_valid_download_target (lines 554-575) on the answer to the HEAD.
check_valid_download_target(answer) == answer = "success"

\* Probing that would not ask for .bz2 once .zst is found.
check_variant_availability_zst_first(cache_state, zst_head, bz2_head, t) ==
    LET zst == check_valid_download_target(zst_head)
        found == Some([value |-> zst, last_checked |-> t])
    IN [has_zst |-> found,
        has_bz2 |-> IF zst
                    THEN found
                    ELSE Some([value |-> check_valid_download_target(bz2_head),
                               last_checked |-> t]),
        probes |-> IF zst THEN <<"head_zst">> ELSE <<"head_zst", "head_bz2">>]

\* Probing that would reuse a cached flag whatever its age.
check_variant_availability_any_age(cache_state, zst_head, bz2_head, t) ==
    LET cached_zst == IF cache_state = None THEN None ELSE Unwrap(cache_state).has_zst
        cached_bz2 == IF cache_state = None THEN None ELSE Unwrap(cache_state).has_bz2
        has_zst == IF cached_zst = None THEN None ELSE Some(Unwrap(cached_zst).value)
        has_bz2 == IF cached_bz2 = None THEN None ELSE Some(Unwrap(cached_bz2).value)
        probe_zst == has_zst = None
        probe_bz2 == has_zst # Some(TRUE) /\ has_bz2 = None
    IN [has_zst |-> IF probe_zst
                    THEN Some([value |-> check_valid_download_target(zst_head),
                               last_checked |-> t])
                    ELSE cached_zst,
        has_bz2 |-> IF has_zst # Some(TRUE)
                    THEN IF probe_bz2
                         THEN Some([value |-> check_valid_download_target(bz2_head),
                                    last_checked |-> t])
                         ELSE cached_bz2
                    ELSE cached_zst,
        probes |-> (IF probe_zst THEN <<"head_zst">> ELSE <<>>)
                       \o (IF probe_bz2 THEN <<"head_bz2">> ELSE <<>>)]

\* check_variant_availability (lines 487-551). zst_head and bz2_head are the
\* answers the HEAD requests get if they are sent; probes lists the HEAD
\* requests that are sent, in the order the futures are polled.
check_variant_availability(cache_state, zst_head, bz2_head, t) ==
    LET cached_zst == IF cache_state = None THEN None ELSE Unwrap(cache_state).has_zst
        cached_bz2 == IF cache_state = None THEN None ELSE Unwrap(cache_state).has_bz2
        has_zst == IF cached_zst = None
                   THEN None
                   ELSE ExpiringValue(Unwrap(cached_zst), ExpirationDays, t)
        has_bz2 == IF cached_bz2 = None
                   THEN None
                   ELSE ExpiringValue(Unwrap(cached_bz2), ExpirationDays, t)
        probe_zst == has_zst = None
        probe_bz2 == has_zst # Some(TRUE) /\ has_bz2 = None
    IN [has_zst |-> IF probe_zst
                    THEN Some([value |-> check_valid_download_target(zst_head),
                               last_checked |-> t])
                    ELSE cached_zst,
        has_bz2 |-> IF has_zst # Some(TRUE)
                    THEN IF probe_bz2
                         THEN Some([value |-> check_valid_download_target(bz2_head),
                                    last_checked |-> t])
                         ELSE cached_bz2
                    ELSE cached_zst,
        probes |-> (IF probe_zst THEN <<"head_zst">> ELSE <<>>)
                       \o (IF probe_bz2 THEN <<"head_bz2">> ELSE <<>>)]

\* The variant that would be asked for if bz2 came before zst.
SelectVariantBz2First(availability) ==
    LET has_zst == IF availability.has_zst = None
                   THEN FALSE
                   ELSE Unwrap(availability.has_zst).value
        has_bz2 == IF availability.has_bz2 = None
                   THEN FALSE
                   ELSE Unwrap(availability.has_bz2).value
    IN IF has_bz2 THEN "Bz2" ELSE IF has_zst THEN "Zst" ELSE "Passthrough"

\* The variant whose URL is requested (lines 249-265).
SelectVariant(availability) ==
    LET has_zst == IF availability.has_zst = None
                   THEN FALSE
                   ELSE Unwrap(availability.has_zst).value
        has_bz2 == IF availability.has_bz2 = None
                   THEN FALSE
                   ELSE Unwrap(availability.has_bz2).value
    IN IF has_zst THEN "Zst" ELSE IF has_bz2 THEN "Bz2" ELSE "Passthrough"

\* has_zst and has_bz2 of lines 249-256: a probe result that is absent
\* counts as false.
AvailableValue(expiring) ==
    IF expiring = None THEN FALSE ELSE Unwrap(expiring).value

\* The content encoding handed to stream_and_decode_to_file (lines 332-338).
ContentEncoding(has_zst, has_bz2) ==
    IF has_zst THEN "Zst" ELSE IF has_bz2 THEN "Bz2" ELSE "Passthrough"

\* A request that would carry no header of the previous state.
BuildRequestUnconditional(subdir_url, variant, cache_state) ==
    [url |-> Join(subdir_url, VariantFile(variant)),
     headers |-> {<<"Accept-Encoding", "gzip">>}]

\* The request of lines 267-289. Accept-Encoding: gzip is always set.
BuildRequest(subdir_url, variant, cache_state) ==
    [url |-> Join(subdir_url, VariantFile(variant)),
     headers |-> {<<"Accept-Encoding", "gzip">>}
                     \cup (IF cache_state = None
                           THEN {}
                           ELSE add_to_request(Unwrap(cache_state).cache_headers))]

\* Encoding::from(&response): the transfer encoding of the body.
TransferEncoding(response) ==
    IF response.content_encoding = Some("gzip") THEN "GZip" ELSE "Passthrough"

\* The state written on a 304 (lines 303-308).
\* A 304 state that would forget the hash of the index file.
NotModifiedStateWithoutHash(cache_state, repo_data_url, has_zst, has_bz2) ==
    [cache_state EXCEPT !.url = repo_data_url,
                        !.has_zst = has_zst,
                        !.has_bz2 = has_bz2,
                        !.blake2_hash = None]

NotModifiedState(cache_state, repo_data_url, has_zst, has_bz2) ==
    [cache_state EXCEPT !.url = repo_data_url,
                        !.has_zst = has_zst,
                        !.has_bz2 = has_bz2]

\* A result that would call every download CacheOutdated.
DownloadAlwaysOutdated(cache_state) == "CacheOutdated"

\* The cache_result of a download (lines 359 and 386-390).
DownloadCacheResult(cache_state) ==
    LET had_cache == cache_state # None
    IN IF had_cache THEN "CacheOutdated" ELSE "CacheNotPresent"

\* A state after a download that would not copy has_jlap over.
DownloadedStateWithoutJlap(repo_data_url, cache_headers, metadata, blake2_hash, has_zst, has_bz2, cache_state) ==
    [url |-> repo_data_url,
     cache_headers |-> cache_headers,
     cache_last_modified |-> metadata.modified,
     cache_size |-> metadata.len,
     blake2_hash |-> Some(blake2_hash),
     has_zst |-> has_zst,
     has_bz2 |-> has_bz2,
     has_jlap |-> None]

\* A state that would record the hash of an empty file.
DownloadedStateStaleHash(repo_data_url, cache_headers, metadata, blake2_hash, has_zst, has_bz2, cache_state) ==
    [url |-> repo_data_url,
     cache_headers |-> cache_headers,
     cache_last_modified |-> metadata.modified,
     cache_size |-> metadata.len,
     blake2_hash |-> Some(<<"blake2s", <<>>>>),
     has_zst |-> has_zst,
     has_bz2 |-> has_bz2,
     has_jlap |-> IF cache_state = None THEN None ELSE Unwrap(cache_state).has_jlap]

\* The state written after a download (lines 360-372).
DownloadedState(repo_data_url, cache_headers, metadata, blake2_hash, has_zst, has_bz2, cache_state) ==
    [url |-> repo_data_url,
     cache_headers |-> cache_headers,
     cache_last_modified |-> metadata.modified,
     cache_size |-> metadata.len,
     blake2_hash |-> Some(blake2_hash),
     has_zst |-> has_zst,
     has_bz2 |-> has_bz2,
     has_jlap |-> IF cache_state = None THEN None ELSE Unwrap(cache_state).has_jlap]

----------------------------------------------------------------------------
(* fetch_repo_data: the locals of a call and how it ends                   *)

AbsentStateFile == [exists |-> FALSE, parsed |-> None]

\* The locals of a call that has not run yet.
Call(subdir_url, cache_action) ==
    [pc |-> "start",
     argument |-> subdir_url,
     subdir_url |-> subdir_url,
     cache_action |-> cache_action,
     validated |-> "none",
     validation |-> None,
     io |-> "none",
     cache_state |-> None,
     has_zst |-> None,
     has_bz2 |-> None,
     variant |-> "none",
     request |-> None,
     response |-> None,
     progress |-> <<>>,
     total_bytes |-> 0,
     written |-> <<>>,
     mtime |-> 0,
     blake2_hash |-> None,
     new_state |-> None,
     cache_result |-> "none",
     returned_state |-> None,
     error |-> "none",
     log |-> <<>>,
     before |-> [index |-> None, statefile |-> AbsentStateFile]]

\* A call the caller never makes.
NoCall == [Call(<<"">>, "CacheOrFetch") EXCEPT !.pc = "unused"]

Key(f) == url_to_cache_filename(fetch[f].subdir_url)

\* Dropping lock_file (LockedFile's Drop) releases the lock, if f holds it.
Released(f) == [k \in Keys |-> IF lock[k] = Some(f) THEN None ELSE lock[k]]

\* The accesses to the cache files made without holding the lock.
Access(f, what) ==
    IF lock[Key(f)] = Some(f) THEN unlocked ELSE unlocked \cup {<<f, what>>}

\* An error return that would leave the lock with the failed call.
ReturnErrKeepingLock(f, locals, err) ==
    /\ fetch' = [fetch EXCEPT ![f] = [locals EXCEPT !.pc = "failed", !.error = err]]
    /\ lock' = lock
    /\ temps' = temps \ {f}

\* return Err(..) or `?`: the locals are dropped, so the lock is released
\* and a NamedTempFile still owned is deleted.
ReturnErr(f, locals, err) ==
    /\ fetch' = [fetch EXCEPT ![f] = [locals EXCEPT !.pc = "failed", !.error = err]]
    /\ lock' = Released(f)
    /\ temps' = temps \ {f}

\* return Ok(CachedRepoData {lock_file, ..}): the lock moves to the caller.
ReturnOk(f, locals, cache_result, state) ==
    /\ fetch' = [fetch EXCEPT ![f] = [locals EXCEPT !.pc = "returned",
                                                     !.cache_result = cache_result,
                                                     !.returned_state = Some(state),
                                                     !.log = Append(@, "return")]]
    /\ lock' = lock
    /\ temps' = temps

\* The call goes on to its next await.
GoOn(f, locals) ==
    /\ fetch' = [fetch EXCEPT ![f] = locals]
    /\ lock' = lock
    /\ temps' = temps

\* .expect(..) on None: the panic unwinds through the locals.
Panic(f, locals) ==
    /\ fetch' = [fetch EXCEPT ![f] = [locals EXCEPT !.pc = "panicked"]]
    /\ lock' = Released(f)
    /\ temps' = temps \ {f}

----------------------------------------------------------------------------
(* fetch_repo_data: one action per await                                   *)

\* Lines 170-180: normalize the URL, derive the paths, spawn the lock task.
Start(f) ==
    /\ fetch[f].pc = "start"
    /\ LET subdir_url == normalize_subdir_url(fetch[f].subdir_url)
           cache_key == url_to_cache_filename(subdir_url)
       IN fetch' = [fetch EXCEPT ![f] =
                      [@ EXCEPT !.pc = "lock",
                                !.subdir_url = subdir_url,
                                !.before = [index |-> index[cache_key],
                                            statefile |-> statefile[cache_key]]]]
    /\ UNCHANGED <<now, index, statefile, lock, temps, server, detached, unlocked, document, package_hashes>>

\* Lock acquisition that would go on to validation under every cache action.
AcquireLockThenValidate(f) ==
    /\ fetch[f].pc = "lock"
    /\ lock[Key(f)] = None
    /\ lock' = [lock EXCEPT ![Key(f)] = Some(f)]
    /\ fetch' = [fetch EXCEPT ![f] =
                    [@ EXCEPT !.pc = "validate",
                              !.log = Append(@, "lock"),
                              !.before = [index |-> index[Key(f)],
                                          statefile |-> statefile[Key(f)]]]]
    /\ UNCHANGED <<now, index, statefile, temps, server, detached, unlocked, document, package_hashes>>

\* Lock acquisition that would, under NoCache, skip the validation but take
\* the state record on disk for the previous state.
AcquireLockKeepingState(f) ==
    /\ fetch[f].pc = "lock"
    /\ lock[Key(f)] = None
    /\ lock' = [lock EXCEPT ![Key(f)] = Some(f)]
    /\ fetch' = [fetch EXCEPT ![f] =
                    [@ EXCEPT !.pc = IF fetch[f].cache_action # "NoCache"
                                     THEN "validate"
                                     ELSE "probe",
                              !.cache_state = IF fetch[f].cache_action # "NoCache"
                                              THEN None
                                              ELSE statefile[Key(f)].parsed,
                              !.log = Append(@, "lock"),
                              !.before = [index |-> index[Key(f)],
                                          statefile |-> statefile[Key(f)]]]]
    /\ UNCHANGED <<now, index, statefile, temps, server, detached, unlocked, document, package_hashes>>

\* Lines 179-185: LockedFile::open_rw returns once the lock is free.
AcquireLock(f) ==
    /\ fetch[f].pc = "lock"
    /\ lock[Key(f)] = None
    /\ lock' = [lock EXCEPT ![Key(f)] = Some(f)]
    /\ fetch' = [fetch EXCEPT ![f] =
                    [@ EXCEPT !.pc = IF fetch[f].cache_action # "NoCache"
                                     THEN "validate"
                                     ELSE "probe",
                              !.log = Append(@, "lock"),
                              !.before = [index |-> index[Key(f)],
                                          statefile |-> statefile[Key(f)]]]]
    /\ UNCHANGED <<now, index, statefile, temps, server, detached, unlocked, document, package_hashes>>

\* Line 182: LockedFile::open_rw fails with an OS error.
LockError(f) ==
    /\ fetch[f].pc = "lock"
    /\ ReturnErr(f, fetch[f], "FailedToAcquireLock")
    /\ UNCHANGED <<now, index, statefile, server, detached, unlocked, document, package_hashes>>

\* A validation that would delete a state file it cannot parse.
ValidateAndDiscard(f) ==
    /\ fetch[f].pc = "validate"
    /\ \E io \in IoOutcomes :
          LET v == validate_cached_state(index[Key(f)], statefile[Key(f)],
                                         fetch[f].subdir_url, now, io)
              d == Dispatch(v, fetch[f].cache_action)
              ok == validate_cached_state(index[Key(f)], statefile[Key(f)],
                                          fetch[f].subdir_url, now, "ok")
              locals == [fetch[f] EXCEPT !.validated = v.class,
                                         !.validation =
                                             Some([index |-> index[Key(f)],
                                                   statefile |-> statefile[Key(f)],
                                                   at |-> now,
                                                   state |-> v.state]),
                                         !.io = IF v = ok THEN "ok" ELSE io,
                                         !.log = Append(@, "validate")]
          IN CASE d.do = "return" ->
                      ReturnOk(f, locals, "CacheHit", Unwrap(d.state))
               [] d.do = "fail" ->
                      ReturnErr(f, locals, "NoCacheAvailable")
               [] OTHER ->
                      GoOn(f, [locals EXCEPT !.pc = "probe",
                                             !.cache_state = d.state])
    /\ unlocked' = Access(f, "validate")
    /\ statefile' = [statefile EXCEPT ![Key(f)] =
                        IF @.exists /\ @.parsed = None THEN AbsentStateFile ELSE @]
    /\ UNCHANGED <<now, index, server, detached, document, package_hashes>>

\* Lines 185-236: validate the cache and act on the verdict.
ValidateCache(f) ==
    /\ fetch[f].pc = "validate"
    /\ \E io \in IoOutcomes :
          LET v == validate_cached_state(index[Key(f)], statefile[Key(f)],
                                         fetch[f].subdir_url, now, io)
              d == Dispatch(v, fetch[f].cache_action)
              ok == validate_cached_state(index[Key(f)], statefile[Key(f)],
                                          fetch[f].subdir_url, now, "ok")
              locals == [fetch[f] EXCEPT !.validated = v.class,
                                         !.validation =
                                             Some([index |-> index[Key(f)],
                                                   statefile |-> statefile[Key(f)],
                                                   at |-> now,
                                                   state |-> v.state]),
                                         !.io = IF v = ok THEN "ok" ELSE io,
                                         !.log = Append(@, "validate")]
          IN CASE d.do = "return" ->
                      ReturnOk(f, locals, "CacheHit", Unwrap(d.state))
               [] d.do = "fail" ->
                      ReturnErr(f, locals, "NoCacheAvailable")
               [] OTHER ->
                      GoOn(f, [locals EXCEPT !.pc = "probe",
                                             !.cache_state = d.state])
    /\ unlocked' = Access(f, "validate")
    /\ UNCHANGED <<now, index, statefile, server, detached, document, package_hashes>>

\* A step that would send the GET without waiting for the probes.
ProbeAfterGet(f) ==
    /\ fetch[f].pc = "probe"
    /\ LET a == check_variant_availability(
                    fetch[f].cache_state,
                    HeadAnswer(server, "repodata.json.zst"),
                    HeadAnswer(server, "repodata.json.bz2"),
                    now)
           variant == SelectVariant(a)
           request == BuildRequest(fetch[f].subdir_url, variant, fetch[f].cache_state)
       IN GoOn(f, [fetch[f] EXCEPT !.pc = "get",
                                   !.has_zst = a.has_zst,
                                   !.has_bz2 = a.has_bz2,
                                   !.variant = variant,
                                   !.request = Some(request),
                                   !.log = @ \o <<"get">> \o a.probes])
    /\ UNCHANGED <<now, index, statefile, server, detached, unlocked, document, package_hashes>>

\* Lines 241-295: probe the variants, select one, send the GET.
Probe(f) ==
    /\ fetch[f].pc = "probe"
    /\ LET a == check_variant_availability(
                    fetch[f].cache_state,
                    HeadAnswer(server, "repodata.json.zst"),
                    HeadAnswer(server, "repodata.json.bz2"),
                    now)
           variant == SelectVariant(a)
           request == BuildRequest(fetch[f].subdir_url, variant, fetch[f].cache_state)
       IN GoOn(f, [fetch[f] EXCEPT !.pc = "get",
                                   !.has_zst = a.has_zst,
                                   !.has_bz2 = a.has_bz2,
                                   !.variant = variant,
                                   !.request = Some(request),
                                   !.log = @ \o a.probes \o <<"get">>])
    /\ UNCHANGED <<now, index, statefile, server, detached, unlocked, document, package_hashes>>

\* Lines 292-327 and 403-453: the response arrives. An error status or a
\* failed connection is an error; a 304 builds the state to store; any other
\* response is streamed: the progress callback gets bytes = 0, then the
\* temporary file is created.
GetResponse(f) ==
    /\ fetch[f].pc = "get"
    /\ LET answer == GetAnswer(server, Unwrap(fetch[f].request))
           r == Unwrap(answer)
       IN IF answer = None
          THEN ReturnErr(f, fetch[f], "HttpError")
          ELSE IF r.status >= 400 /\ r.status < 600
          THEN ReturnErr(f, [fetch[f] EXCEPT !.response = answer], "HttpError")
          ELSE IF r.status = 304
          THEN IF fetch[f].cache_state = None
               THEN Panic(f, [fetch[f] EXCEPT !.response = answer])
               ELSE GoOn(f, [fetch[f] EXCEPT
                       !.pc = "store",
                       !.response = answer,
                       !.cache_result = "CacheHitAfterFetch",
                       !.new_state = Some(NotModifiedState(
                           Unwrap(fetch[f].cache_state),
                           Unwrap(fetch[f].request).url,
                           fetch[f].has_zst, fetch[f].has_bz2))])
          ELSE LET locals == [fetch[f] EXCEPT
                       !.response = answer,
                       !.progress = Append(@, [bytes |-> 0, total |-> r.content_length])]
               IN \E created \in BOOLEAN :
                     IF created
                     THEN /\ fetch' = [fetch EXCEPT ![f] =
                                 [locals EXCEPT !.pc = "stream",
                                                !.mtime = now,
                                                !.log = Append(@, "temp")]]
                          /\ lock' = lock
                          /\ temps' = temps \cup {f}
                     ELSE ReturnErr(f, locals, "FailedToCreateTemporaryFile")
    /\ UNCHANGED <<now, index, statefile, server, detached, unlocked, document, package_hashes>>


\* A count that would be the length of the last chunk only.
inspect_last_chunk(total_bytes, bytes) == Len(bytes)

\* The closure of inspect_ok (lines 426-427): the bytes received so far.
inspect_ok(total_bytes, bytes) == total_bytes + Len(bytes)

\* Lines 417-463: tokio::io::copy reads one chunk of the body. The chunk is
\* counted and reported, then decoded (transfer encoding, then content
\* encoding), hashed and written to the temporary file.
Chunk(f) ==
    /\ fetch[f].pc = "stream"
    /\ Unwrap(fetch[f].response).chunks # <<>>
    /\ LET r == Unwrap(fetch[f].response)
           chunk == Head(r.chunks)
           total_bytes == inspect_ok(fetch[f].total_bytes, chunk)
           locals == [fetch[f] EXCEPT
                        !.total_bytes = total_bytes,
                        !.progress = Append(@, [bytes |-> total_bytes,
                                                total |-> r.content_length]),
                        !.response = Some([r EXCEPT !.chunks = Tail(@)])]
           transfer_encoding == TransferEncoding(r)
           content_encoding == ContentEncoding(AvailableValue(fetch[f].has_zst),
                                               AvailableValue(fetch[f].has_bz2))
           read == fetch[f].total_bytes
           transferred == DecodeStream(transfer_encoding, read, chunk)
           decoded == IF transferred = None
                      THEN None
                      ELSE DecodeStream(content_encoding,
                                        DecodedCount(transfer_encoding, read),
                                        Unwrap(transferred))
       IN IF decoded # None
          THEN GoOn(f, [locals EXCEPT !.written = @ \o Unwrap(decoded),
                                      !.mtime = now])
          ELSE ReturnErr(f, locals, "FailedToDownloadRepoData")
    /\ UNCHANGED <<now, index, statefile, server, detached, unlocked, document, package_hashes>>

\* Line 463: reading the body or writing the temporary file fails.
StreamError(f) ==
    /\ fetch[f].pc = "stream"
    /\ ReturnErr(f, fetch[f], "FailedToDownloadRepoData")
    /\ UNCHANGED <<now, index, statefile, server, detached, unlocked, document, package_hashes>>

\* Lines 465-475 and 344-346: the body ends, the hash is finalized and the
\* task that persists the temporary file is spawned.
StreamEnd(f) ==
    /\ fetch[f].pc = "stream"
    /\ Unwrap(fetch[f].response).chunks = <<>>
    /\ GoOn(f, [fetch[f] EXCEPT !.pc = "persist",
                                !.blake2_hash = Some(Blake2(fetch[f].written))])
    /\ UNCHANGED <<now, index, statefile, server, detached, unlocked, document, package_hashes>>

\* What persisting the temporary file of f leaves at the index path.
PersistedIndex(f) ==
    [index EXCEPT ![Key(f)] = Some([content |-> fetch[f].written,
                                    mtime |-> fetch[f].mtime])]

PersistOutcomes == {"ok", "persist_err", "metadata_err"}

\* Lines 346-372: rename the temporary file onto the index path, read the
\* metadata of the file and build the new state. When the rename fails, the
\* tempfile::PersistError that is returned inside FailedToPersistTemporaryFile
\* (lines 40-41, 349) owns the NamedTempFile: the file is not deleted by the
\* return.
Persist(f) ==
    /\ fetch[f].pc = "persist"
    /\ \E outcome \in PersistOutcomes :
          CASE outcome = "persist_err" ->
                   /\ fetch' = [fetch EXCEPT ![f] = [@ EXCEPT
                             !.pc = "failed",
                             !.error = "FailedToPersistTemporaryFile"]]
                   /\ lock' = Released(f)
                   /\ temps' = temps
                   /\ index' = index
            [] outcome = "metadata_err" ->
                   /\ ReturnErr(f, [fetch[f] EXCEPT !.log = Append(@, "rename")],
                                "FailedToGetMetadata")
                   /\ index' = PersistedIndex(f)
            [] OTHER ->
                   LET metadata == [len |-> Len(fetch[f].written),
                                    modified |-> fetch[f].mtime]
                       r == Unwrap(fetch[f].response)
                   IN /\ fetch' = [fetch EXCEPT ![f] = [@ EXCEPT
                             !.pc = "store",
                             !.log = Append(@, "rename"),
                             !.cache_result = DownloadCacheResult(fetch[f].cache_state),
                             !.new_state = Some(DownloadedState(
                                 Unwrap(fetch[f].request).url,
                                 CacheHeadersFrom(r),
                                 metadata,
                                 Unwrap(fetch[f].blake2_hash),
                                 fetch[f].has_zst,
                                 fetch[f].has_bz2,
                                 fetch[f].cache_state))]]
                      /\ lock' = lock
                      /\ temps' = temps \ {f}
                      /\ index' = PersistedIndex(f)
    /\ unlocked' = Access(f, "persist")
    /\ UNCHANGED <<now, statefile, server, detached, document, package_hashes>>

\* RepoDataState::to_path: create or truncate the file, then write it.
StoreOutcomes == {"ok", "create_err", "write_err"}

StoredStateFile(f, outcome) ==
    CASE outcome = "ok" ->
             [statefile EXCEPT ![Key(f)] = [exists |-> TRUE, parsed |-> fetch[f].new_state]]
      [] outcome = "write_err" ->
             [statefile EXCEPT ![Key(f)] = [exists |-> TRUE, parsed |-> None]]
      [] OTHER -> statefile

\* A state write that would also set the index file's mtime to the time of
\* the write.
StoreTouchingIndex(f) ==
    /\ fetch[f].pc = "store"
    /\ \E outcome \in StoreOutcomes :
          /\ statefile' = StoredStateFile(f, outcome)
          /\ IF outcome = "ok"
             THEN ReturnOk(f, [fetch[f] EXCEPT !.log = Append(@, "store")],
                           fetch[f].cache_result, Unwrap(fetch[f].new_state))
             ELSE ReturnErr(f, fetch[f], "FailedToWriteCacheState")
    /\ index' = [index EXCEPT ![Key(f)] =
                    IF @ = None THEN @ ELSE Some([Unwrap(@) EXCEPT !.mtime = now + 1])]
    /\ unlocked' = Access(f, "store")
    /\ UNCHANGED <<now, server, detached, document, package_hashes>>

\* Lines 310-324 and 374-392: write the state file and return.
Store(f) ==
    /\ fetch[f].pc = "store"
    /\ \E outcome \in StoreOutcomes :
          /\ statefile' = StoredStateFile(f, outcome)
          /\ IF outcome = "ok"
             THEN ReturnOk(f, [fetch[f] EXCEPT !.log = Append(@, "store")],
                           fetch[f].cache_result, Unwrap(fetch[f].new_state))
             ELSE ReturnErr(f, fetch[f], "FailedToWriteCacheState")
    /\ unlocked' = Access(f, "store")
    /\ UNCHANGED <<now, index, server, detached, document, package_hashes>>

\* The caller drops the CachedRepoData and with it the lock.
DropHandle(f) ==
    /\ fetch[f].pc = "returned"
    /\ fetch' = [fetch EXCEPT ![f] = [@ EXCEPT !.pc = "dropped"]]
    /\ lock' = Released(f)
    /\ UNCHANGED <<now, index, statefile, temps, server, detached, unlocked, document, package_hashes>>

\* The caller drops a FailedToPersistTemporaryFile error, and with it the
\* NamedTempFile it owns.
DropError(f) ==
    /\ fetch[f].pc = "failed"
    /\ fetch[f].error = "FailedToPersistTemporaryFile"
    /\ f \in temps
    /\ temps' = temps \ {f}
    /\ UNCHANGED <<now, index, statefile, lock, server, fetch, detached, unlocked, document, package_hashes>>

\* The awaits of fetch_repo_data, and those on a spawn_blocking task.
AwaitPoints == {"lock", "validate", "probe", "get", "stream", "persist", "store"}

BlockingTasks == {"lock", "validate", "persist", "store"}

\* The caller drops the future at an await. The locals are dropped: the lock
\* is released and a temporary file the future owns is deleted. A closure
\* handed to spawn_blocking is not stopped: it runs to its end on the
\* blocking pool, with what it captured (the persist closure owns the
\* temporary file).
Cancel(f) ==
    /\ fetch[f].pc \in AwaitPoints
    /\ fetch' = [fetch EXCEPT ![f] = [@ EXCEPT !.pc = "cancelled"]]
    /\ lock' = Released(f)
    /\ temps' = IF fetch[f].pc = "persist" THEN temps ELSE temps \ {f}
    /\ detached' = [detached EXCEPT ![f] = IF fetch[f].pc \in BlockingTasks
                                           THEN fetch[f].pc
                                           ELSE "none"]
    /\ UNCHANGED <<now, index, statefile, server, unlocked, document, package_hashes>>

\* The closure of a cancelled fetch runs; its result is dropped.
RunDetached(f) ==
    /\ detached[f] # "none"
    /\ detached' = [detached EXCEPT ![f] = "none"]
    /\ CASE detached[f] = "lock" ->
                /\ lock[Key(f)] = None
                /\ UNCHANGED <<index, statefile, temps, unlocked>>
         [] detached[f] = "validate" ->
                /\ unlocked' = Access(f, "validate")
                /\ UNCHANGED <<index, statefile, temps>>
         [] detached[f] = "persist" ->
                /\ \E renamed \in BOOLEAN :
                      index' = IF renamed THEN PersistedIndex(f) ELSE index
                /\ temps' = temps \ {f}
                /\ unlocked' = Access(f, "persist")
                /\ UNCHANGED statefile
         [] OTHER ->
                /\ \E outcome \in StoreOutcomes :
                      statefile' = StoredStateFile(f, outcome)
                /\ unlocked' = Access(f, "store")
                /\ UNCHANGED <<index, temps>>
    /\ UNCHANGED <<now, lock, server, fetch, document, package_hashes>>

\* Time passes.
Tick ==
    /\ now < MaxClock
    /\ now' = now + 1
    /\ UNCHANGED <<index, statefile, lock, temps, server, fetch, detached, unlocked, document, package_hashes>>

----------------------------------------------------------------------------
(* rattler_conda_types::conda_lock: PackageHashes and its serde impls      *)
(* A digest is a sequence of nibbles; in a document it is a string of hex  *)
(* digits. A field of the mapping is absent, null or a string.             *)

Absent == [kind |-> "absent", text |-> <<>>]

Null == [kind |-> "null", text |-> <<>>]

Text(t) == [kind |-> "string", text |-> t]

HexDigits == {"0", "4", "a", "e", "f", "A", "E", "F"}

\* The value of a hex digit, in either case.
HexValue(c) ==
    CASE c = "0" -> 0
      [] c = "4" -> 4
      [] c \in {"a", "A"} -> 10
      [] c \in {"e", "E"} -> 14
      [] OTHER -> 15

\* The digit a nibble is written as (lower case).
HexDigit(n) ==
    CASE n = 0 -> "0"
      [] n = 4 -> "4"
      [] n = 10 -> "a"
      [] n = 14 -> "e"
      [] OTHER -> "f"

\* The number of hex digits of a digest (scaled down from 32 and 64).
HexLen(algorithm) == IF algorithm = "md5" THEN 2 ELSE 4

\* SerializableHash: deserialized from a hex string of the length of the
\* digest, serialized as lower-case hex.
ParseHex(algorithm, t) ==
    IF Len(t) = HexLen(algorithm) /\ \A i \in 1..Len(t) : t[i] \in HexDigits
    THEN Some([i \in 1..Len(t) |-> HexValue(t[i])])
    ELSE None

FormatHex(digest) == [i \in 1..Len(digest) |-> HexDigit(digest[i])]

Md5(hash) == [variant |-> "Md5", md5 |-> Some(hash), sha256 |-> None]

Sha256(hash) == [variant |-> "Sha256", md5 |-> None, sha256 |-> Some(hash)]

Md5Sha256(md5hash, sha) == [variant |-> "Md5Sha256", md5 |-> Some(md5hash), sha256 |-> Some(sha)]

Ok(value) == [is_ok |-> TRUE, value |-> Some(value)]

Err == [is_ok |-> FALSE, value |-> None]

\* #[derive(Deserialize)] on an Option<SerializableHash> field: None for
\* an absent or null field, an error for a string that is not a digest.
DeserializeField(algorithm, field) ==
    IF field.kind # "string"
    THEN Ok(None)
    ELSE IF ParseHex(algorithm, field.text) = None
    THEN Err
    ELSE Ok(ParseHex(algorithm, field.text))

\* #[derive(Serialize)] on the same field: null for None.
SerializeField(hash) ==
    IF hash = None THEN Null ELSE Text(FormatHex(Unwrap(hash)))

\* #[derive(Deserialize)] struct RawPackageHashes.
RawPackageHashes(doc) ==
    LET md5 == DeserializeField("md5", doc.md5)
        sha256 == DeserializeField("sha256", doc.sha256)
    IN IF md5.is_ok /\ sha256.is_ok
       THEN Ok([md5 |-> Unwrap(md5.value), sha256 |-> Unwrap(sha256.value)])
       ELSE Err

\* impl Serialize for PackageHashes (lines 109-131).
serialize(hashes) ==
    [md5 |-> SerializeField(hashes.md5), sha256 |-> SerializeField(hashes.sha256)]

\* A deserializer that would keep the md5 hash only when it finds both.
deserialize_md5_first(doc) ==
    LET temp == RawPackageHashes(doc)
        raw == Unwrap(temp.value)
    IN IF ~ temp.is_ok
       THEN Err
       ELSE IF raw.md5 # None
       THEN Ok(Md5(Unwrap(raw.md5)))
       ELSE IF raw.sha256 # None
       THEN Ok(Sha256(Unwrap(raw.sha256)))
       ELSE Err

\* impl Deserialize for PackageHashes (lines 140-152).
deserialize(doc) ==
    LET temp == RawPackageHashes(doc)
        raw == Unwrap(temp.value)
    IN IF ~ temp.is_ok
       THEN Err
       ELSE IF raw.md5 # None /\ raw.sha256 # None
       THEN Ok(Md5Sha256(Unwrap(raw.md5), Unwrap(raw.sha256)))
       ELSE IF raw.md5 # None
       THEN Ok(Md5(Unwrap(raw.md5)))
       ELSE IF raw.sha256 # None
       THEN Ok(Sha256(Unwrap(raw.sha256)))
       ELSE Err

\* serde_yaml::from_str::<PackageHashes> on the document.
Deserialize ==
    /\ document # None
    /\ package_hashes' = Some(deserialize(Unwrap(document)))
    /\ UNCHANGED <<now, index, statefile, lock, temps, server, fetch, detached, unlocked, document>>

\* serde_yaml::to_string on the PackageHashes value.
Serialize ==
    /\ package_hashes # None
    /\ Unwrap(package_hashes).is_ok
    /\ document' = Some(serialize(Unwrap(Unwrap(package_hashes).value)))
    /\ UNCHANGED <<now, index, statefile, lock, temps, server, fetch, detached, unlocked, package_hashes>>

----------------------------------------------------------------------------
(* The states a call can start from                                        *)

ContentX == <<PlainByte("x")>>

ContentY == <<PlainByte("y")>>

ContentXY == <<PlainByte("x"), PlainByte("y")>>

SubdirA == <<"ch", "a", "">>

KeyA == url_to_cache_filename(SubdirA)

\* A probe result that is still fresh on day 0, and one that is not.
Fresh(value) == Some([value |-> value, last_checked |-> -1])

Expired(value) == Some([value |-> value, last_checked |-> -15])

\* The state a fetch of /ch/a/repodata.json left on day 0 for ContentX.
GoodState ==
    [url |-> <<"ch", "a", "repodata.json">>,
     cache_headers |-> [etag |-> Some("e1"),
                        last_modified |-> Some("lm1"),
                        cache_control |-> Some("public, max-age=1")],
     cache_last_modified |-> 0,
     cache_size |-> 1,
     blake2_hash |-> Some(Blake2(ContentX)),
     has_zst |-> Fresh(FALSE),
     has_bz2 |-> Fresh(FALSE),
     has_jlap |-> None]

\* The same state written by a version that recorded no hash.
UnhashedState == [GoodState EXCEPT !.blake2_hash = None]

\* GoodState and UnhashedState with one field changed.
InitialStates ==
    {GoodState, UnhashedState}
        \cup {[GoodState EXCEPT !.url = u] :
                u \in {<<"ch", "a", "repodata.json.zst">>, <<"ch", "b", "repodata.json">>}}
        \cup {[GoodState EXCEPT !.cache_headers.cache_control = c] :
                c \in {None, Some("public"), Some("private, max-age=1"), Some("garbage")}}
        \cup {[GoodState EXCEPT !.cache_headers.etag = None,
                                !.cache_headers.last_modified = None]}
        \cup {[s EXCEPT !.cache_last_modified = -2] : s \in {GoodState, UnhashedState}}
        \cup {[s EXCEPT !.cache_size = 2] : s \in {GoodState, UnhashedState}}
        \cup {[GoodState EXCEPT !.blake2_hash = Some(Blake2(ContentY))]}
        \cup {[GoodState EXCEPT !.has_zst = z] : z \in {None, Fresh(TRUE), Expired(TRUE)}}
        \cup {[GoodState EXCEPT !.has_bz2 = b] : b \in {None, Fresh(TRUE), Expired(FALSE)}}
        \cup {[GoodState EXCEPT !.has_zst = Fresh(TRUE), !.has_bz2 = Expired(FALSE)]}
        \cup {[GoodState EXCEPT !.has_jlap = Fresh(TRUE)]}

InitialStateFiles ==
    {AbsentStateFile, [exists |-> TRUE, parsed |-> None]}
        \cup {[exists |-> TRUE, parsed |-> Some(s)] : s \in InitialStates}

\* No index file; the file GoodState describes; the same bytes written two
\* days ago; other bytes of the same size; a file dated tomorrow.
InitialIndexFiles ==
    {None,
     Some([content |-> ContentX, mtime |-> 0]),
     Some([content |-> ContentX, mtime |-> -2]),
     Some([content |-> ContentY, mtime |-> 0]),
     Some([content |-> ContentX, mtime |-> 1])}

\* A server with /ch/a/repodata.json only, unchanged since GoodState.
PlainServer ==
    [mode |-> "normal",
     content |-> ContentX,
     zst |-> FALSE,
     bz2 |-> FALSE,
     gzip |-> FALSE,
     chunks |-> 1,
     sends_length |-> TRUE,
     etag |-> Some("e1"),
     last_modified |-> Some("lm1"),
     cache_control |-> Some("public, max-age=1")]

\* A server whose index changed after GoodState was written.
ChangedServer ==
    [PlainServer EXCEPT !.content = ContentXY,
                        !.etag = Some("e2"),
                        !.last_modified = Some("lm2")]

\* Servers that answer the GET with a file.
ServingServers ==
    {[ChangedServer EXCEPT !.mode = m, !.zst = z, !.bz2 = b, !.gzip = g, !.chunks = c] :
        m \in {"normal", "unencoded"}, z \in BOOLEAN, b \in BOOLEAN,
        g \in BOOLEAN, c \in 1..MaxChunks}
      \cup {[ChangedServer EXCEPT !.sends_length = FALSE,
                                  !.etag = None,
                                  !.last_modified = None,
                                  !.cache_control = None]}

\* Servers that answer the GET otherwise.
FailingServers ==
    {[ChangedServer EXCEPT !.mode = m, !.zst = z, !.bz2 = b] :
        m \in ServerModes \ {"normal", "unencoded"}, z \in BOOLEAN, b \in BOOLEAN}

EmptyDisk == [index |-> None, statefile |-> AbsentStateFile]

GoodDisk ==
    [index |-> Some([content |-> ContentX, mtime |-> 0]),
     statefile |-> [exists |-> TRUE, parsed |-> Some(GoodState)]]

StaleDisk ==
    [index |-> Some([content |-> ContentX, mtime |-> -2]),
     statefile |-> [exists |-> TRUE, parsed |-> Some([GoodState EXCEPT !.cache_last_modified = -2])]]

\* What holds at the start of every scenario.
InitCommon(disk) ==
    /\ now = 0
    /\ index = [k \in Keys |-> IF k = KeyA THEN disk.index ELSE None]
    /\ statefile = [k \in Keys |-> IF k = KeyA THEN disk.statefile ELSE AbsentStateFile]
    /\ lock = [k \in Keys |-> None]
    /\ temps = {}
    /\ detached = [f \in Fetches |-> "none"]
    /\ unlocked = {}
    /\ document = None
    /\ package_hashes = None

\* One call, on any cache, against a server that has not changed or has.
InitAnyCache ==
    /\ \E i \in InitialIndexFiles, s \in InitialStateFiles :
          InitCommon([index |-> i, statefile |-> s])
    /\ server \in {PlainServer, ChangedServer}
    /\ \E a \in CacheActions :
          fetch = [f \in Fetches |-> IF f = "f1" THEN Call(<<"ch", "a">>, a) ELSE NoCall]

\* One call, on an empty, a fresh or a stale cache, against any server.
InitAnyServer ==
    /\ \E d \in {EmptyDisk, GoodDisk, StaleDisk} : InitCommon(d)
    /\ server \in ServingServers \cup FailingServers
    /\ \E a \in CacheActions :
          fetch = [f \in Fetches |-> IF f = "f1" THEN Call(<<"ch", "a">>, a) ELSE NoCall]

\* Two calls, on the same subdirectory or on two.
InitConcurrent ==
    /\ \E d \in {EmptyDisk, StaleDisk} : InitCommon(d)
    /\ server = ChangedServer
    /\ \E a1 \in CacheActions, a2 \in CacheActions,
          u2 \in {<<"ch", "a", "">>, <<"ch", "b">>} :
          fetch = [f \in Fetches |-> IF f = "f1"
                                     THEN Call(<<"ch", "a">>, a1)
                                     ELSE Call(u2, a2)]

\* Servers that differ in what lets a client reuse its copy: the validators
\* (ETag, Last-Modified) and the Cache-Control header.
RepeatServers ==
    {[PlainServer EXCEPT !.zst = z,
                         !.etag = IF v THEN Some("e1") ELSE None,
                         !.last_modified = IF v THEN Some("lm1") ELSE None,
                         !.cache_control = c] :
        z \in BOOLEAN, v \in BOOLEAN,
        c \in {Some("public, max-age=1"), Some("public, max-age=0"), Some("garbage"), None}}

\* Two calls under CacheOrFetch for one subdirectory, on an empty cache.
InitRepeat ==
    /\ InitCommon(EmptyDisk)
    /\ server \in RepeatServers
    /\ fetch = [f \in Fetches |-> IF f = "f1"
                                  THEN Call(<<"ch", "a">>, "CacheOrFetch")
                                  ELSE Call(<<"ch", "a", "">>, "CacheOrFetch")]

\* The ways a caller may write the URL of /ch/a: with no trailing slash,
\* with one, with several; and the same with an empty segment inside.
SubdirUrlArguments ==
    {<<"ch", "a">>, <<"ch", "a", "">>, <<"ch", "a", "", "">>,
     <<"ch", "a", "", "", "">>, <<"ch", "", "a">>, <<"ch", "", "a", "", "">>}

\* One call, with the subdirectory URL written in any of these ways.
InitAnyUrl ==
    /\ \E d \in {EmptyDisk, GoodDisk} : InitCommon(d)
    /\ server \in {PlainServer, ChangedServer}
    /\ \E u \in SubdirUrlArguments, a \in CacheActions :
          fetch = [f \in Fetches |-> IF f = "f1" THEN Call(u, a) ELSE NoCall]

\* Caches whose verdict is about to change: one that is fresh on day 0
\* only, one that is fresh for a day more, one whose index file is dated
\* tomorrow.
AgeingDisks ==
    {[GoodDisk EXCEPT !.statefile.parsed =
          Some([GoodState EXCEPT !.cache_headers.cache_control = Some("public, max-age=0")])],
     GoodDisk,
     [GoodDisk EXCEPT !.index = Some([content |-> ContentX, mtime |-> 1])]}

\* Two calls for one subdirectory, on a cache that validates.
InitRevalidate ==
    /\ \E d \in AgeingDisks : InitCommon(d)
    /\ server = ChangedServer
    /\ \E a1 \in {"UseCacheOnly", "CacheOrFetch"}, a2 \in {"ForceCacheOnly", "CacheOrFetch"} :
          fetch = [f \in Fetches |-> IF f = "f1"
                                     THEN Call(<<"ch", "a">>, a1)
                                     ELSE Call(<<"ch", "a", "">>, a2)]

\* What the md5 and the sha256 field of a mapping may hold: nothing, null,
\* a digest in lower or upper case, a string that is no digest.
Md5Fields ==
    {Absent, Null, Text(<<"4", "e">>), Text(<<"e", "4">>), Text(<<"4", "E">>),
     Text(<<"f", "f">>), Text(<<"4">>), Text(<<"4", "e", "0", "0">>)}

Sha256Fields ==
    {Absent, Null, Text(<<"f", "2", "4", "0">>), Text(<<"a", "e", "0", "0">>),
     Text(<<"F", "2", "4", "0">>), Text(<<"e", "e", "e", "e">>), Text(<<"f", "2">>),
     Text(<<"f", "2", "4", "g">>)}

\* The digests of the values to write; <<10, 0>> and <<0, 0, 10, 14>> are in
\* no mapping to read.
Md5Digests == {<<4, 14>>, <<10, 0>>}

Sha256Digests == {<<15, 0, 4, 0>>, <<0, 0, 10, 14>>}

PackageHashesValues ==
    {Md5(m) : m \in Md5Digests}
        \cup {Sha256(h) : h \in Sha256Digests}
        \cup {Md5Sha256(m, h) : m \in Md5Digests, h \in Sha256Digests}

\* A hash mapping to read, or a PackageHashes value to write; no fetch.
InitPackageHashes ==
    /\ now = 0
    /\ index = [k \in Keys |-> None]
    /\ statefile = [k \in Keys |-> AbsentStateFile]
    /\ lock = [k \in Keys |-> None]
    /\ temps = {}
    /\ server = PlainServer
    /\ fetch = [f \in Fetches |-> NoCall]
    /\ detached = [f \in Fetches |-> "none"]
    /\ unlocked = {}
    /\ \/ /\ \E m \in Md5Fields, h \in Sha256Fields :
                document = Some([md5 |-> m, sha256 |-> h])
          /\ package_hashes = None
       \/ /\ document = None
          /\ package_hashes \in {Some(Ok(v)) : v \in PackageHashesValues}

Init == InitAnyCache \/ InitAnyServer

Next ==
    \/ \E f \in Fetches : Start(f)
    \/ \E f \in Fetches : AcquireLock(f)
    \/ \E f \in Fetches : LockError(f)
    \/ \E f \in Fetches : ValidateCache(f)
    \/ \E f \in Fetches : Probe(f)
    \/ \E f \in Fetches : GetResponse(f)
    \/ \E f \in Fetches : Chunk(f)
    \/ \E f \in Fetches : StreamError(f)
    \/ \E f \in Fetches : StreamEnd(f)
    \/ \E f \in Fetches : Persist(f)
    \/ \E f \in Fetches : Store(f)
    \/ \E f \in Fetches : DropHandle(f)
    \/ \E f \in Fetches : DropError(f)
    \/ \E f \in Fetches : Cancel(f)
    \/ \E f \in Fetches : RunDetached(f)
    \/ Tick

\* Reading and writing the hashes of a locked package.
NextPackageHashes == Deserialize \/ Serialize

\* One call of fetch_repo_data.
Spec == Init /\ [][Next]_vars

\* What the executor and the environment owe a call that is not dropped:
\* the future is polled, the lock is granted or refused, the blocking tasks
\* run, every HEAD and GET completes or fails, and the body of the response
\* ends or errors.
Fairness ==
    \A f \in Fetches :
        /\ WF_vars(Start(f))
        /\ WF_vars(AcquireLock(f) \/ LockError(f))
        /\ WF_vars(ValidateCache(f))
        /\ WF_vars(Probe(f))
        /\ WF_vars(GetResponse(f))
        /\ WF_vars(Chunk(f) \/ StreamError(f) \/ StreamEnd(f))
        /\ WF_vars(Persist(f))
        /\ WF_vars(Store(f))

\* One call of fetch_repo_data that is driven to its end.
SpecLive == Init /\ [][Next]_vars /\ Fairness

\* The serde impls of PackageHashes.
SpecPackageHashes == InitPackageHashes /\ [][NextPackageHashes]_vars

\* One call of fetch_repo_data, for any way of writing the URL.
SpecAnyUrl == InitAnyUrl /\ [][Next]_vars

\* Two calls of fetch_repo_data for one subdirectory, starting cold.
SpecRepeat == InitRepeat /\ [][Next]_vars

\* Two calls of fetch_repo_data for one subdirectory, on a cache that ages.
SpecRevalidate == InitRevalidate /\ [][Next]_vars

\* Two calls of fetch_repo_data at once.
SpecConcurrent == InitConcurrent /\ [][Next]_vars

----------------------------------------------------------------------------
(* Properties                                                              *)

Called == {f \in Fetches : fetch[f].pc \notin {"unused", "start"}}

Events(f) == {fetch[f].log[i] : i \in 1..Len(fetch[f].log)}

\* The cache files of f's key are as they were when f was called.
CacheUntouched(f) ==
    /\ index[Key(f)] = fetch[f].before.index
    /\ statefile[Key(f)] = fetch[f].before.statefile

\* The state record describes the index file on disk.
Describes(state, file) ==
    /\ file # None
    /\ state.cache_size = Len(Unwrap(file).content)
    /\ state.cache_last_modified = Unwrap(file).mtime
    /\ state.blake2_hash # None =>
           Unwrap(state.blake2_hash) = Blake2(Unwrap(file).content)

\* C1: on every successful return the returned state gives the size and the
\* mtime of the index file on disk and, if it has a hash, the file's hash.
C1_ReturnedStateDescribesFile ==
    \A f \in Called :
        fetch[f].pc = "returned" =>
            Describes(Unwrap(fetch[f].returned_state), index[Key(f)])

RefreshErrors ==
    {"HttpError", "FailedToDownloadRepoData", "FailedToCreateTemporaryFile",
     "FailedToPersistTemporaryFile", "FailedToGetMetadata", "FailedToWriteCacheState"}

\* C2: when the fetch returns an error of the refresh, the index file and
\* the state file are as they were before the call.
C2_ErrorLeavesCacheUntouched ==
    \A f \in Called :
        fetch[f].pc = "failed" /\ fetch[f].error \in RefreshErrors =>
            CacheUntouched(f)

\* C3: after a fetch is cancelled the index file and the state file are as
\* they were before it started, and once its blocking task has ended no
\* temporary file of it is left.
C3_CancelLeavesCacheUntouched ==
    \A f \in Called :
        fetch[f].pc = "cancelled" =>
            /\ CacheUntouched(f)
            /\ detached[f] = "none" => f \notin temps

\* The positions of a call between taking the lock and giving it up.
Holding == {"validate", "probe", "get", "stream", "persist", "store", "returned"}

SameKey(f, g) == f # g /\ f \in Called /\ g \in Called /\ Key(f) = Key(g)

\* C4: at most one fetch per cache key is between taking and releasing the
\* lock, every access to the index file or the state file is made by a
\* fetch that holds the lock, and a fetch waits for the lock only while a
\* fetch on the same key holds it.
C4_LockSerializesCacheAccess ==
    /\ \A f \in Fetches, g \in Fetches :
          SameKey(f, g) => ~ (fetch[f].pc \in Holding /\ fetch[g].pc \in Holding)
    /\ unlocked = {}
    /\ \A f \in Called :
          fetch[f].pc = "lock" /\ lock[Key(f)] # None =>
              \E g \in Fetches : SameKey(f, g) /\ fetch[g].pc \in Holding

\* C5: after an error return, a panic or a cancellation the call does not
\* hold the lock; after a successful return it holds the lock until the
\* caller drops the handle, and no other call on the same key is past the
\* lock.
C5_LockReleasedOrRetained ==
    \A f \in Called :
        /\ fetch[f].pc \in {"failed", "panicked", "cancelled", "dropped"} =>
               lock[Key(f)] # Some(f)
        /\ fetch[f].pc = "returned" =>
               /\ lock[Key(f)] = Some(f)
               /\ \A g \in Fetches : SameKey(f, g) => fetch[g].pc \notin Holding

\* A call holds the handle it was returned after another call on the same
\* key failed while it held the lock.
C5_Witness ==
    \E f \in Fetches, g \in Fetches :
        /\ SameKey(f, g)
        /\ fetch[f].pc = "returned"
        /\ fetch[g].pc = "failed"
        /\ fetch[g].error # "FailedToAcquireLock"

Validated(f) == fetch[f].validated # "none"

Succeeded(f) == fetch[f].pc \in {"returned", "dropped"}

\* The call returned the state record of the state file with CacheHit.
ReturnedStoredState(f) ==
    /\ Succeeded(f)
    /\ fetch[f].cache_result = "CacheHit"
    /\ fetch[f].returned_state = fetch[f].before.statefile.parsed
    /\ fetch[f].returned_state # None

FailedNoCache(f) == fetch[f].pc = "failed" /\ fetch[f].error = "NoCacheAvailable"

\* C6: under UseCacheOnly a validated call has returned the stored state
\* with CacheHit if the cache is UpToDate and has failed with
\* NoCacheAvailable if it is not.
C6_UseCacheOnly ==
    \A f \in Called :
        fetch[f].cache_action = "UseCacheOnly" =>
            /\ Validated(f) =>
                  IF fetch[f].validated = "UpToDate"
                  THEN ReturnedStoredState(f)
                  ELSE FailedNoCache(f)
            /\ Succeeded(f) => fetch[f].validated = "UpToDate"

C6_Witness ==
    \E f \in Called :
        /\ fetch[f].cache_action = "UseCacheOnly"
        /\ fetch[f].validated = "UpToDate"
        /\ ReturnedStoredState(f)

\* C7: under ForceCacheOnly a validated call has returned the stored state
\* with CacheHit if the cache is UpToDate or OutOfDate and has failed with
\* NoCacheAvailable if it is Mismatched or InvalidOrMissing.
C7_ForceCacheOnly ==
    \A f \in Called :
        fetch[f].cache_action = "ForceCacheOnly" =>
            /\ Validated(f) =>
                  IF fetch[f].validated \in {"UpToDate", "OutOfDate"}
                  THEN ReturnedStoredState(f)
                  ELSE FailedNoCache(f)
            /\ Succeeded(f) => fetch[f].validated \in {"UpToDate", "OutOfDate"}

C7_Witness ==
    \E f \in Called :
        /\ fetch[f].cache_action = "ForceCacheOnly"
        /\ fetch[f].validated = "OutOfDate"
        /\ ReturnedStoredState(f)

NetworkEvents == {"head_zst", "head_bz2", "get"}

WriteEvents == {"temp", "rename", "store"}

\* The call sent no request and wrote no file.
NoNetworkNoWrites(f) ==
    /\ Events(f) \cap (NetworkEvents \cup WriteEvents) = {}
    /\ fetch[f].request = None
    /\ fetch[f].response = None
    /\ CacheUntouched(f)
    /\ f \notin temps
    /\ detached[f] \notin {"persist", "store"}

\* C8: a call under UseCacheOnly or ForceCacheOnly sends no HEAD and no GET
\* and writes neither the index file nor the state file, whatever it
\* returns.
C8_CacheOnlyIsLocal ==
    \A f \in Called :
        fetch[f].cache_action \in {"UseCacheOnly", "ForceCacheOnly"} =>
            /\ NoNetworkNoWrites(f)
            /\ fetch[f].pc \in {"lock", "validate", "returned", "dropped", "failed", "cancelled"}

\* A cache-only call has failed for want of a cache although the server has
\* the index.
C8_Witness ==
    \E f \in Called :
        /\ fetch[f].cache_action \in {"UseCacheOnly", "ForceCacheOnly"}
        /\ fetch[f].validated = "InvalidOrMissing"
        /\ FailedNoCache(f)
        /\ server.mode = "normal"

\* C9: under CacheOrFetch a cache that is UpToDate is returned at once with
\* CacheHit, as loaded, with no request and no write; a cache that is not
\* UpToDate takes the call on to the probes and the GET.
C9_CacheOrFetch ==
    \A f \in Called :
        fetch[f].cache_action = "CacheOrFetch" /\ Validated(f) =>
            IF fetch[f].validated = "UpToDate"
            THEN ReturnedStoredState(f) /\ NoNetworkNoWrites(f)
            ELSE /\ fetch[f].cache_result # "CacheHit"
                 /\ ~ FailedNoCache(f)
                 /\ \/ fetch[f].pc \in {"probe", "cancelled"}
                    \/ "get" \in Events(f)

C9_Witness ==
    \E f \in Called :
        /\ fetch[f].cache_action = "CacheOrFetch"
        /\ fetch[f].validated = "UpToDate"
        /\ ReturnedStoredState(f)
        /\ server = ChangedServer

\* The If-None-Match and If-Modified-Since headers of a request.
ConditionalHeaders(request) ==
    {h \in request.headers : h[1] \in {"If-None-Match", "If-Modified-Since"}}

\* The call ended otherwise than by failing to take the lock or by being
\* cancelled.
RanToAnEnd(f) ==
    \/ Succeeded(f)
    \/ fetch[f].pc = "panicked"
    \/ fetch[f].pc = "failed" /\ fetch[f].error # "FailedToAcquireLock"

\* C10: under NoCache the cache is not validated and no previous state is
\* used: the call never returns CacheHit, has sent the GET whenever it ran
\* to an end, and its request has no conditional header.
C10_NoCache ==
    \A f \in Called :
        fetch[f].cache_action = "NoCache" =>
            /\ ~ Validated(f)
            /\ "validate" \notin Events(f)
            /\ fetch[f].cache_state = None
            /\ fetch[f].cache_result # "CacheHit"
            /\ ~ FailedNoCache(f)
            /\ RanToAnEnd(f) => "get" \in Events(f)
            /\ fetch[f].request # None =>
                   ConditionalHeaders(Unwrap(fetch[f].request)) = {}

\* A NoCache call downloaded the index although the cache it found would
\* have validated as UpToDate and its state has an ETag.
C10_Witness ==
    \E f \in Called :
        /\ fetch[f].cache_action = "NoCache"
        /\ fetch[f].pc = "returned"
        /\ fetch[f].cache_result = "CacheNotPresent"
        /\ validate_cached_state(fetch[f].before.index, fetch[f].before.statefile,
                                 fetch[f].subdir_url, now, "ok").class = "UpToDate"
        /\ add_to_request(Unwrap(fetch[f].before.statefile.parsed).cache_headers) # {}

\* The number of times event e is in the log of f.
Count(f, e) == Cardinality({i \in 1..Len(fetch[f].log) : fetch[f].log[i] = e})

\* The call downloaded a body and got as far as the end of the stream.
Downloaded(f) ==
    \/ fetch[f].pc = "persist"
    \/ fetch[f].cache_result \in {"CacheOutdated", "CacheNotPresent"}

\* C11: a refresh sends one GET, for repodata.json.zst if has_zst is true,
\* else for repodata.json.bz2 if has_bz2 is true, else for repodata.json,
\* under the subdirectory URL; the body is decoded as that variant, and the
\* state that is stored has the URL of the GET.
C11_OneVariantRequested ==
    \A f \in Called :
        fetch[f].request # None =>
            LET has_zst == AvailableValue(fetch[f].has_zst)
                has_bz2 == AvailableValue(fetch[f].has_bz2)
                file == IF has_zst THEN "repodata.json.zst"
                        ELSE IF has_bz2 THEN "repodata.json.bz2"
                        ELSE "repodata.json"
                url == Unwrap(fetch[f].request).url
            IN /\ Count(f, "get") = 1
               /\ fetch[f].subdir_url[Len(fetch[f].subdir_url)] = ""
               /\ url = SubSeq(fetch[f].subdir_url, 1, Len(fetch[f].subdir_url) - 1) \o <<file>>
               /\ fetch[f].new_state # None => Unwrap(fetch[f].new_state).url = url
               /\ fetch[f].pc = "returned" =>
                      /\ Unwrap(fetch[f].returned_state).url = url
                      /\ statefile[Key(f)].parsed = fetch[f].returned_state
               /\ Downloaded(f) /\ server.mode = "normal" =>
                      fetch[f].written = server.content
               /\ server.mode = "unencoded" /\ file # "repodata.json" =>
                      ~ Downloaded(f)

\* A call downloaded repodata.json.bz2 from a server that has no .zst, and
\* returned.
C11_Witness ==
    \E f \in Called :
        /\ fetch[f].pc = "returned"
        /\ fetch[f].cache_result = "CacheNotPresent"
        /\ Unwrap(fetch[f].request).url = <<"ch", "a", "repodata.json.bz2">>
        /\ fetch[f].written = server.content
        /\ server.gzip

\* The server answers a HEAD for the file with a success status.
Serves(file) == HeadAnswer(server, file) = "success"

\* The probe result says the file is there exactly when the server serves it.
ProbedAs(expiring, file) ==
    /\ expiring # None
    /\ Unwrap(expiring).value = Serves(file)

\* The call went past the probes without a previous state record.
ColdProbed(f) == fetch[f].request # None /\ fetch[f].cache_state = None

\* C12: a fetch without a previous state record sends both HEAD probes, and
\* its has_zst and has_bz2, also in the state it returns, are present and
\* say for each file whether the server serves it.
C12_ColdFetchProbesBoth ==
    \A f \in Called :
        ColdProbed(f) =>
            /\ Count(f, "head_zst") = 1
            /\ Count(f, "head_bz2") = 1
            /\ ProbedAs(fetch[f].has_zst, "repodata.json.zst")
            /\ ProbedAs(fetch[f].has_bz2, "repodata.json.bz2")
            /\ fetch[f].pc = "returned" =>
                   /\ ProbedAs(Unwrap(fetch[f].returned_state).has_zst, "repodata.json.zst")
                   /\ ProbedAs(Unwrap(fetch[f].returned_state).has_bz2, "repodata.json.bz2")

\* A cold fetch returned from a server that has .zst and no .bz2.
C12_Witness ==
    \E f \in Called :
        /\ ColdProbed(f)
        /\ fetch[f].pc = "returned"
        /\ Serves("repodata.json.zst")
        /\ ~ Serves("repodata.json.bz2")
        /\ ~ Unwrap(Unwrap(fetch[f].returned_state).has_bz2).value

\* C13: a download is reported as CacheOutdated exactly when a previous
\* state record went into the refresh (the cache was OutOfDate or
\* Mismatched) and as CacheNotPresent exactly when none did (it was
\* InvalidOrMissing, or not validated); the state returned has the hash of
\* the bytes that were written.
C13_DownloadResult ==
    \A f \in Called :
        fetch[f].cache_result \in {"CacheOutdated", "CacheNotPresent"} =>
            /\ fetch[f].cache_result = "CacheOutdated" <=>
                   fetch[f].validated \in {"OutOfDate", "Mismatched"}
            /\ fetch[f].cache_result = "CacheNotPresent" <=>
                   fetch[f].validated \in {"InvalidOrMissing", "none"}
            /\ fetch[f].cache_result = "CacheOutdated" <=> fetch[f].cache_state # None
            /\ fetch[f].before = EmptyDisk => fetch[f].cache_result = "CacheNotPresent"
            /\ fetch[f].pc = "returned" =>
                   Unwrap(fetch[f].returned_state).blake2_hash = Some(Blake2(fetch[f].written))

\* A refetch after the server's content changed returned CacheOutdated with
\* a hash other than the one of the previous state.
C13_Witness ==
    \E f \in Called :
        /\ fetch[f].pc = "returned"
        /\ fetch[f].cache_result = "CacheOutdated"
        /\ fetch[f].validated = "OutOfDate"
        /\ Unwrap(fetch[f].response).status = 200
        /\ Unwrap(fetch[f].returned_state).blake2_hash
               # Unwrap(fetch[f].before.statefile.parsed).blake2_hash
        /\ Unwrap(fetch[f].returned_state).blake2_hash = Some(Blake2(server.content))

\* The server knows the conditional requests and has a validator to match.
HonoursConditionalRequests ==
    /\ server.mode = "normal"
    /\ server.etag # None \/ server.last_modified # None

\* g took the lock on the cache as a cold fetch f under CacheOrFetch left it,
\* and no file system error changed the verdict of its validation.
RepeatOf(g, f) ==
    /\ SameKey(f, g)
    /\ fetch[f].cache_action = "CacheOrFetch"
    /\ fetch[g].cache_action = "CacheOrFetch"
    /\ fetch[f].before = EmptyDisk
    /\ Succeeded(f)
    /\ fetch[f].cache_result = "CacheNotPresent"
    /\ fetch[g].before.statefile.parsed = fetch[f].returned_state
    /\ fetch[g].before.index # None
    /\ fetch[g].io = "ok"

Got304(f) == fetch[f].response # None /\ Unwrap(fetch[f].response).status = 304

\* C15: when the GET is answered with 304 the fetch creates no temporary
\* file and leaves the index file as it was; what it returns is
\* CacheHitAfterFetch, with the state it wrote to the state file.
C15_NotModifiedKeepsIndex ==
    \A f \in Called :
        Got304(f) =>
            /\ Events(f) \cap {"temp", "rename"} = {}
            /\ f \notin temps
            /\ fetch[f].written = <<>>
            /\ index[Key(f)] = fetch[f].before.index
            /\ fetch[f].cache_result \in {"none", "CacheHitAfterFetch"}
            /\ Succeeded(f) => fetch[f].cache_result = "CacheHitAfterFetch"
            /\ fetch[f].pc = "returned" =>
                   statefile[Key(f)].parsed = fetch[f].returned_state

\* A 304 was answered and the fetch returned after changing the state file.
C15_Witness ==
    \E f \in Called :
        /\ Got304(f)
        /\ fetch[f].pc = "returned"
        /\ fetch[f].cache_result = "CacheHitAfterFetch"
        /\ statefile[Key(f)] # fetch[f].before.statefile
        /\ index[Key(f)] = fetch[f].before.index

\* C16: once a fetch has returned, with a state or with an error, no
\* temporary file of it is left in the cache directory.
C16_NoTempFileAfterReturn ==
    \A f \in Called :
        fetch[f].pc \in {"returned", "dropped", "failed"} => f \notin temps

\* The GET of f was answered with a status that is neither 2xx nor 304.
GotOtherStatus(f) ==
    /\ fetch[f].response # None
    /\ Unwrap(fetch[f].response).status \notin (200..299) \cup {304}

\* C17: a GET answered with a status that is neither 2xx nor 304 makes the
\* fetch fail with HttpError: no body is streamed, no temporary file is
\* made or renamed, and the index file and the state file stay as they were.
C17_OtherStatusIsError ==
    \A f \in Called :
        GotOtherStatus(f) =>
            /\ fetch[f].pc = "failed"
            /\ fetch[f].error = "HttpError"
            /\ fetch[f].progress = <<>>
            /\ Events(f) \cap WriteEvents = {}
            /\ CacheUntouched(f)

\* C18: a 304 answered to a fetch that has no previous state record makes
\* the fetch return an error, with the lock released and the index file and
\* the state file as they were.
C18_NotModifiedWithoutStateIsError ==
    \A f \in Called :
        Got304(f) /\ fetch[f].cache_state = None =>
            /\ fetch[f].pc = "failed"
            /\ fetch[f].error # "none"
            /\ lock[Key(f)] # Some(f)
            /\ CacheUntouched(f)

\* has_jlap of an optional state record.
JlapOf(state) == IF state = None THEN None ELSE Unwrap(state).has_jlap

\* The call returned after writing the state file.
Rewrote(f) == fetch[f].pc = "returned" /\ fetch[f].cache_result # "CacheHit"

\* C19 as stated: the has_jlap a fetch writes to the state file is the
\* has_jlap of the state record that was on disk before the fetch, under
\* every cache action and validation result.
C19_HasJlapAsOnDisk ==
    \A f \in Called :
        Rewrote(f) =>
            JlapOf(statefile[Key(f)].parsed) = JlapOf(fetch[f].before.statefile.parsed)

\* C19 as amended: the has_jlap a fetch writes to the state file is the
\* has_jlap of the previous state record it carried into the refresh, which
\* is the record of the state file; when it carried none, it writes none.
C19_HasJlapFromCarriedState ==
    \A f \in Called :
        /\ fetch[f].cache_state # None =>
               fetch[f].cache_state = fetch[f].before.statefile.parsed
        /\ fetch[f].new_state # None =>
               JlapOf(fetch[f].new_state) = JlapOf(fetch[f].cache_state)
        /\ Rewrote(f) =>
               JlapOf(statefile[Key(f)].parsed) = JlapOf(fetch[f].cache_state)

\* A download over a carried state that has a has_jlap wrote it back.
C19_Witness ==
    \E f \in Called :
        /\ Rewrote(f)
        /\ fetch[f].cache_result = "CacheOutdated"
        /\ JlapOf(fetch[f].cache_state) # None
        /\ JlapOf(statefile[Key(f)].parsed) = JlapOf(fetch[f].before.statefile.parsed)

\* The phase of each event of a fetch.
Phase(e) ==
    CASE e = "lock" -> 1
      [] e = "validate" -> 2
      [] e \in {"head_zst", "head_bz2"} -> 3
      [] e = "get" -> 4
      [] e = "temp" -> 5
      [] e = "rename" -> 6
      [] e = "store" -> 7
      [] OTHER -> 8

\* C20: the events of a fetch are in the order lock, validation, probes,
\* GET, temporary file, rename, state write, return; each happens once; a
\* fetch that validates does so before it probes, and a refresh returns
\* only after its state is in the state file.
C20_PhaseOrder ==
    \A f \in Called :
        LET log == fetch[f].log
            E == Events(f)
        IN /\ \A i \in 1..Len(log), j \in 1..Len(log) :
                  i < j => /\ Phase(log[i]) <= Phase(log[j])
                           /\ log[i] # log[j]
           /\ log # <<>> => log[1] = "lock"
           /\ fetch[f].cache_action # "NoCache" /\ E \cap NetworkEvents # {} =>
                  "validate" \in E
           /\ E \cap WriteEvents # {} => "get" \in E
           /\ "rename" \in E => "temp" \in E
           /\ "store" \in E => "rename" \in E \/ Got304(f)
           /\ "return" \in E /\ fetch[f].cache_result # "CacheHit" => "store" \in E
           /\ Rewrote(f) => statefile[Key(f)].parsed = fetch[f].returned_state

\* A fetch went through every phase and returned.
C20_Witness ==
    \E f \in Called :
        fetch[f].log = <<"lock", "validate", "head_zst", "head_bz2", "get",
                         "temp", "rename", "store", "return">>


\* The chunks of the body of the response of f as the server sent them.
WireChunks(f) == Unwrap(GetAnswer(server, Unwrap(fetch[f].request))).chunks

\* C21: the progress callback is first invoked with bytes = 0, before any
\* chunk is read (and before the temporary file exists); then once per chunk
\* received, with the running sum of the lengths of the chunks as they came
\* over the wire. The values never decrease, the last one of a download
\* that read the whole body is the number of bytes on the wire, and every
\* invocation carries the Content-Length of the response (or none) as total.
C21_ProgressCountsWireBytes ==
    \A f \in Called :
        LET progress == fetch[f].progress
            received == Len(WireChunks(f)) - Len(Unwrap(fetch[f].response).chunks)
        IN /\ ("temp" \in Events(f) \/ fetch[f].pc = "stream") => progress # <<>>
           /\ progress # <<>> =>
                /\ fetch[f].response # None
                /\ progress[1].bytes = 0
                /\ Len(progress) = 1 + received
                /\ \A i \in 1..Len(progress) :
                      /\ progress[i].total =
                            Unwrap(GetAnswer(server, Unwrap(fetch[f].request))).content_length
                      /\ progress[i].bytes = WireLength(SubSeq(WireChunks(f), 1, i - 1))
                      /\ i > 1 => progress[i].bytes >= progress[i - 1].bytes
                /\ Downloaded(f) =>
                      progress[Len(progress)].bytes = WireLength(WireChunks(f))

\* A download of a compressed body that came in several chunks and was
\* reported with its Content-Length: more bytes were written than received.
C21_Witness ==
    \E f \in Called :
        /\ Downloaded(f)
        /\ fetch[f].pc = "returned"
        /\ Len(fetch[f].progress) >= 3
        /\ fetch[f].progress[1].total # None
        /\ fetch[f].progress[Len(fetch[f].progress)].bytes # Len(fetch[f].written)

\* The number of slashes a path ends in.
TrailingSlashes(url) == Len(url) - Len(StripTrailingSlashes(url))

\* C22: normalize_subdir_url is idempotent, and the path of a normalized
\* URL ends in exactly one slash, whether the URL it was given ended in no
\* slash, in one or in several. (fetch_repo_data normalizes its argument
\* first, so subdir_url is the normalized argument from then on.)
C22_NormalizeIdempotent ==
    \A f \in Called :
        fetch[f].pc # "start" =>
            /\ fetch[f].subdir_url = normalize_subdir_url(fetch[f].argument)
            /\ normalize_subdir_url(fetch[f].subdir_url) = fetch[f].subdir_url
            /\ TrailingSlashes(fetch[f].subdir_url) = 1
            /\ StripTrailingSlashes(fetch[f].subdir_url)
                    = StripTrailingSlashes(fetch[f].argument)

\* A call that was given a URL with several trailing slashes has started.
C22_Witness ==
    \E f \in Called :
        /\ fetch[f].pc # "start"
        /\ TrailingSlashes(fetch[f].argument) > 1
        /\ fetch[f].subdir_url # fetch[f].argument

\* f and g validated the same index file and state file for the same URL.
SameCache(f, g) ==
    /\ fetch[f].validation # None
    /\ fetch[g].validation # None
    /\ fetch[f].subdir_url = fetch[g].subdir_url
    /\ Unwrap(fetch[f].validation).index = Unwrap(fetch[g].validation).index
    /\ Unwrap(fetch[f].validation).statefile = Unwrap(fetch[g].validation).statefile

\* f and g were given the same verdict and the same state record.
SameVerdict(f, g) ==
    /\ fetch[f].validated = fetch[g].validated
    /\ Unwrap(fetch[f].validation).state = Unwrap(fetch[g].validation).state

\* The step in which a call validates changes neither cache file.
ValidationWritesNothing ==
    \A f \in Fetches :
        (fetch[f].validation = None /\ fetch'[f].validation # None) =>
            UNCHANGED <<index, statefile>>

Probes(f, e) == Count(f, e)' = Count(f, e) + 1

\* What a HEAD request for the file sent now leaves in the flag.
ProbeResult(file) == Some([value |-> Serves(file), last_checked |-> now])

\* C24: a probe never makes the fetch fail. The step that sends a HEAD
\* request sets the flag to true if and only if the answer has a success
\* status (to false for any other status and for a network error), with
\* last_checked the time of the probe; and the fetch goes on to select a
\* variant and send its GET.
C24_ProbeNeverFails ==
    [][\A f \in Fetches :
          /\ Probes(f, "head_zst") =>
                fetch'[f].has_zst = ProbeResult("repodata.json.zst")
          /\ Probes(f, "head_bz2") =>
                fetch'[f].has_bz2 = ProbeResult("repodata.json.bz2")
          /\ (Probes(f, "head_zst") \/ Probes(f, "head_bz2")) =>
                /\ fetch'[f].pc = "get"
                /\ fetch'[f].error = "none"
                /\ fetch'[f].variant = SelectVariant([has_zst |-> fetch'[f].has_zst,
                                                      has_bz2 |-> fetch'[f].has_bz2])
                /\ fetch'[f].request # None
                /\ Count(f, "get")' = 1]_vars

\* Both probes met a network error, on day 1: both flags are false as of
\* day 1, and the GET for repodata.json was sent.
C24_Witness ==
    \E f \in Called :
        /\ HeadAnswer(server, "repodata.json.zst") = "network_error"
        /\ Count(f, "head_zst") = 1
        /\ Count(f, "head_bz2") = 1
        /\ fetch[f].has_zst = Some([value |-> FALSE, last_checked |-> 1])
        /\ fetch[f].has_bz2 = Some([value |-> FALSE, last_checked |-> 1])
        /\ fetch[f].variant = "Passthrough"
        /\ "get" \in Events(f)

\* The field of the document holds a hash.
Present(algorithm, field) ==
    field.kind = "string" /\ ParseHex(algorithm, field.text) # None

\* The field holds none: it is absent or null.
Missing(field) == field.kind # "string"

\* C25: deserializing a hash mapping gives Md5Sha256 when both the md5 and
\* the sha256 field hold a hash, Md5 when only md5 does, Sha256 when only
\* sha256 does, and an error when neither does; the hashes are those of the
\* fields. Serializing a PackageHashes value and deserializing what was
\* written gives the value back. (Checked in every state that has both a
\* document and a value: the value was read from the document, or the
\* document was written from the value.)
C25_PackageHashesSerde ==
    (document # None /\ package_hashes # None) =>
        LET doc == Unwrap(document)
            result == Unwrap(package_hashes)
            hashes == Unwrap(result.value)
        IN /\ (Present("md5", doc.md5) /\ Present("sha256", doc.sha256)) =>
                /\ result.is_ok
                /\ hashes.variant = "Md5Sha256"
                /\ hashes.md5 = ParseHex("md5", doc.md5.text)
                /\ hashes.sha256 = ParseHex("sha256", doc.sha256.text)
           /\ (Present("md5", doc.md5) /\ Missing(doc.sha256)) =>
                /\ result.is_ok
                /\ hashes.variant = "Md5"
                /\ hashes.md5 = ParseHex("md5", doc.md5.text)
                /\ hashes.sha256 = None
           /\ (Missing(doc.md5) /\ Present("sha256", doc.sha256)) =>
                /\ result.is_ok
                /\ hashes.variant = "Sha256"
                /\ hashes.md5 = None
                /\ hashes.sha256 = ParseHex("sha256", doc.sha256.text)
           /\ (Missing(doc.md5) /\ Missing(doc.sha256)) => ~ result.is_ok
           /\ result.is_ok =>
                /\ deserialize(serialize(hashes)) = Ok(hashes)
                /\ deserialize(serialize(hashes)).value = result.value

\* A value with two hashes that no document to read has was written, and
\* it is what the document reads as.
C25_Witness ==
    /\ document # None
    /\ Unwrap(document).md5 = Text(<<"a", "0">>)
    /\ package_hashes \in {Some(Ok(v)) : v \in PackageHashesValues}
    /\ Unwrap(document) = serialize(Unwrap(Unwrap(package_hashes).value))
    /\ Unwrap(Unwrap(package_hashes).value).variant = "Md5Sha256"
    /\ deserialize(Unwrap(document)) = Unwrap(package_hashes)

\* The state record validation loaded for f, for the URL f asked for, and
\* the index file it found; no file-system error changed the verdict.
Loaded(f) ==
    /\ fetch[f].validation # None
    /\ fetch[f].io = "ok"
    /\ Unwrap(fetch[f].validation).index # None
    /\ Unwrap(fetch[f].validation).statefile.parsed # None
    /\ cached_subdir_url(Unwrap(Unwrap(fetch[f].validation).statefile.parsed).url)
            = fetch[f].subdir_url

LoadedState(f) == Unwrap(Unwrap(fetch[f].validation).statefile.parsed)

LoadedFile(f) == Unwrap(Unwrap(fetch[f].validation).index)

\* C26: when the state record has no blake2_hash, validation requires both
\* the size and the mtime of the index file to equal cache_size and
\* cache_last_modified: if either differs (also when the size is the same
\* and only the mtime differs) the verdict is Mismatched.
C26_UnhashedBindingChecksSizeAndMtime ==
    \A f \in Called :
        (Loaded(f) /\ LoadedState(f).blake2_hash = None) =>
            ((\/ Len(LoadedFile(f).content) # LoadedState(f).cache_size
              \/ LoadedFile(f).mtime # LoadedState(f).cache_last_modified)
                => fetch[f].validated = "Mismatched")

\* Validation of f loaded a state record for its URL and read the mtime of
\* the index file (the checks that come before the binding check passed).
ReachedBinding(f) ==
    /\ fetch[f].validation # None
    /\ fetch[f].io \in {"ok", "read_err"}
    /\ Unwrap(fetch[f].validation).index # None
    /\ Unwrap(fetch[f].validation).statefile.parsed # None
    /\ cached_subdir_url(Unwrap(Unwrap(fetch[f].validation).statefile.parsed).url)
            = fetch[f].subdir_url

\* C27: when the state record has a blake2_hash, the binding check is
\* decided by the hash of the index file alone: a hash that differs, or a
\* file that cannot be read, gives Mismatched; with the same hash the check
\* passes (the verdict is the one freshness gives) even when the size or
\* the mtime of the file differs from the state record.
C27_HashedBindingByHashAlone ==
    \A f \in Called :
        (ReachedBinding(f) /\ LoadedState(f).blake2_hash # None) =>
            IF \/ fetch[f].io = "read_err"
               \/ Blake2(LoadedFile(f).content) # Unwrap(LoadedState(f).blake2_hash)
            THEN fetch[f].validated = "Mismatched"
            ELSE [class |-> fetch[f].validated, state |-> Unwrap(fetch[f].validation).state]
                    = CacheControlVerdict(LoadedState(f), LoadedFile(f).mtime,
                                          Unwrap(fetch[f].validation).at)

\* The hash matched while the recorded size did not, and the cache was
\* found up to date.
C27_Witness ==
    \E f \in Called :
        /\ ReachedBinding(f)
        /\ LoadedState(f).blake2_hash = Some(Blake2(LoadedFile(f).content))
        /\ LoadedState(f).cache_size # Len(LoadedFile(f).content)
        /\ fetch[f].validated = "UpToDate"

\* The cases in which validation has no state record to hand on: the index
\* file is missing or cannot be stat-ed, the state file is missing or
\* cannot be parsed, or it was written for another subdirectory URL.
NothingToValidate(f) ==
    LET v == Unwrap(fetch[f].validation)
    IN \/ v.index = None
       \/ fetch[f].io = "stat_err"
       \/ ~ v.statefile.exists
       \/ v.statefile.parsed = None
       \/ cached_subdir_url(Unwrap(v.statefile.parsed).url) # fetch[f].subdir_url

\* C28: the verdict is InvalidOrMissing, with no state record, exactly in
\* those cases, whatever the binding check and the freshness check would
\* say; in every other case the verdict carries the state record of the
\* state file.
C28_InvalidOrMissingExactly ==
    \A f \in Called :
        fetch[f].validation # None =>
            IF NothingToValidate(f)
            THEN /\ fetch[f].validated = "InvalidOrMissing"
                 /\ Unwrap(fetch[f].validation).state = None
            ELSE /\ fetch[f].validated \in {"Mismatched", "OutOfDate", "UpToDate"}
                 /\ Unwrap(fetch[f].validation).state
                        = Unwrap(fetch[f].validation).statefile.parsed

\* A state record for another subdirectory whose hash is not that of the
\* index file either: InvalidOrMissing, not Mismatched.
C28_Witness ==
    \E f \in Called :
        /\ fetch[f].validation # None
        /\ Unwrap(fetch[f].validation).index # None
        /\ Unwrap(fetch[f].validation).statefile.parsed # None
        /\ cached_subdir_url(LoadedState(f).url) # fetch[f].subdir_url
        /\ LoadedState(f).blake2_hash # Some(Blake2(LoadedFile(f).content))
        /\ fetch[f].validated = "InvalidOrMissing"

\* Validation of f got past the binding check, and the age of the cache
\* (the time of validation minus the mtime of the index file) is defined.
ReachedFreshness(f) ==
    /\ Loaded(f)
    /\ BindingHolds(LoadedState(f), LoadedFile(f), "ok")
    /\ Unwrap(fetch[f].validation).at >= LoadedFile(f).mtime

\* The age of the cache f validated.
Age(f) == Unwrap(fetch[f].validation).at - LoadedFile(f).mtime

\* The Cache-Control value stored in the state record, and how it parses.
StoredCacheControl(f) == LoadedState(f).cache_headers.cache_control

\* The stored value is public with a max-age of at least the age.
PublicAndYoung(f) ==
    /\ StoredCacheControl(f) # None
    /\ \E cc \in CacheControlFromValue(Unwrap(StoredCacheControl(f))) :
          /\ cc.cachability = Some("Public")
          /\ \E d \in cc.max_age : Age(f) <= d

\* C29: once the binding check has passed and the age is defined, the
\* verdict follows the stored Cache-Control value: none gives OutOfDate; one
\* that does not parse gives Mismatched; public with max-age d gives
\* OutOfDate when age > d and UpToDate when age <= d; any other value that
\* parses gives OutOfDate. UpToDate is the verdict in no other case.
C29_FreshnessByCacheControl ==
    \A f \in Called :
        /\ ReachedFreshness(f) =>
              fetch[f].validated =
                 IF StoredCacheControl(f) = None
                 THEN "OutOfDate"
                 ELSE IF CacheControlFromValue(Unwrap(StoredCacheControl(f))) = None
                 THEN "Mismatched"
                 ELSE IF PublicAndYoung(f)
                 THEN "UpToDate"
                 ELSE "OutOfDate"
        /\ fetch[f].validated = "UpToDate" => (ReachedFreshness(f) /\ PublicAndYoung(f))

\* A cache of exactly max-age (one day) was found up to date.
C29_Witness ==
    \E f \in Called :
        /\ ReachedFreshness(f)
        /\ StoredCacheControl(f) = Some("public, max-age=1")
        /\ Age(f) = 1
        /\ fetch[f].validated = "UpToDate"

\* f validated an index file whose mtime was later than the time of the
\* validation.
FromTheFuture(f) ==
    /\ fetch[f].validation # None
    /\ Unwrap(fetch[f].validation).index # None
    /\ Unwrap(fetch[f].validation).at < LoadedFile(f).mtime

\* C30: when the time of validation is earlier than the mtime of the index
\* file, the verdict is never UpToDate or OutOfDate, whatever Cache-Control
\* value is stored: it is Mismatched, with the state record, whenever there
\* is a state record for the URL to validate (and InvalidOrMissing when
\* there is none). So UseCacheOnly and ForceCacheOnly fail with
\* NoCacheAvailable.
C30_FutureMtimeIsMismatched ==
    \A f \in Called :
        FromTheFuture(f) =>
            /\ fetch[f].validated \notin {"UpToDate", "OutOfDate"}
            /\ ~ NothingToValidate(f) =>
                  /\ fetch[f].validated = "Mismatched"
                  /\ Unwrap(fetch[f].validation).state
                         = Unwrap(fetch[f].validation).statefile.parsed
            /\ fetch[f].cache_action \in {"UseCacheOnly", "ForceCacheOnly"} =>
                  FailedNoCache(f)

\* ForceCacheOnly on a cache that is bound to its state record and would be
\* fresh, but whose index file is dated tomorrow: NoCacheAvailable.
C30_Witness ==
    \E f \in Called :
        /\ FromTheFuture(f)
        /\ Loaded(f)
        /\ BindingHolds(LoadedState(f), LoadedFile(f), "ok")
        /\ StoredCacheControl(f) = Some("public, max-age=1")
        /\ fetch[f].cache_action = "ForceCacheOnly"
        /\ fetch[f].validated = "Mismatched"
        /\ FailedNoCache(f)

\* The step is the probing step of f (variant availability is determined
\* and the request is built).
ProbingStep(f) == fetch[f].pc = "probe" /\ fetch'[f].pc = "get"

\* The has_zst of the previous state record of f is fresh and true.
CachedZstFreshTrue(f) ==
    /\ fetch[f].cache_state # None
    /\ Unwrap(fetch[f].cache_state).has_zst # None
    /\ ExpiringValue(Unwrap(Unwrap(fetch[f].cache_state).has_zst), ExpirationDays, now)
           = Some(TRUE)

\* C31: when has_zst is true from a fresh cached value, no HEAD request for
\* repodata.json.bz2 is sent, and the has_bz2 the probing gives (which the
\* fetch then stores) is the cached has_bz2, value and last_checked
\* unchanged.
C31_CachedBz2KeptWhenZstKnown ==
    [][\A f \in Fetches :
          (ProbingStep(f) /\ CachedZstFreshTrue(f)) =>
              /\ Count(f, "head_bz2")' = Count(f, "head_bz2")
              /\ fetch'[f].has_bz2 = Unwrap(fetch[f].cache_state).has_bz2]_vars

\* The flag of the previous state record of f, if it is fresh now.
FreshFlag(cached) ==
    IF cached = None THEN None ELSE ExpiringValue(Unwrap(cached), ExpirationDays, now)

CachedZst(f) == IF fetch[f].cache_state = None THEN None ELSE Unwrap(fetch[f].cache_state).has_zst

CachedBz2(f) == IF fetch[f].cache_state = None THEN None ELSE Unwrap(fetch[f].cache_state).has_bz2

\* What the probing step does with a flag: a fresh one is kept as it is and
\* no HEAD request is sent; one that is absent or older than 14 days is
\* replaced by the result of a HEAD request sent now.
ReusedOnlyWhileFresh(f, cached, flag, head, file) ==
    IF FreshFlag(cached) # None
    THEN /\ flag' = cached
         /\ Count(f, head)' = Count(f, head)
    ELSE /\ flag' = ProbeResult(file)
         /\ Count(f, head)' = Count(f, head) + 1

\* C32 as stated: both has_zst and has_bz2 are reused only while fresh, and
\* probed anew otherwise.
C32_FlagsReusedOnlyWhileFresh ==
    [][\A f \in Fetches :
          ProbingStep(f) =>
              /\ ReusedOnlyWhileFresh(f, CachedZst(f), fetch[f].has_zst,
                                      "head_zst", "repodata.json.zst")
              /\ ReusedOnlyWhileFresh(f, CachedBz2(f), fetch[f].has_bz2,
                                      "head_bz2", "repodata.json.bz2")]_vars

\* C32, amended: has_zst is reused only while fresh and probed anew
\* otherwise; so is has_bz2, unless the cached has_zst is fresh and true,
\* in which case no HEAD request for repodata.json.bz2 is sent whatever the
\* age of the cached has_bz2.
C32_FlagsReusedUnlessZstKnown ==
    [][\A f \in Fetches :
          ProbingStep(f) =>
              /\ ReusedOnlyWhileFresh(f, CachedZst(f), fetch[f].has_zst,
                                      "head_zst", "repodata.json.zst")
              /\ IF CachedZstFreshTrue(f)
                 THEN Count(f, "head_bz2")' = Count(f, "head_bz2")
                 ELSE ReusedOnlyWhileFresh(f, CachedBz2(f), fetch[f].has_bz2,
                                           "head_bz2", "repodata.json.bz2")]_vars

\* A fetch whose previous state record had a has_zst older than 14 days and
\* a fresh has_bz2: has_zst was probed on day 1, has_bz2 is as it was.
C32_Witness ==
    \E f \in Called :
        /\ fetch[f].request # None
        /\ CachedZst(f) = Expired(TRUE)
        /\ CachedBz2(f) = Fresh(FALSE)
        /\ Count(f, "head_zst") = 1
        /\ Count(f, "head_bz2") = 0
        /\ fetch[f].has_zst # None
        /\ Unwrap(fetch[f].has_zst).last_checked = 1
        /\ fetch[f].has_bz2 = Fresh(FALSE)

\* C33: on the 304 path the state record written and returned is the
\* previous state record with url, has_zst and has_bz2 overwritten by the
\* URL of the GET and the results of the probing; cache_headers,
\* cache_last_modified, cache_size, blake2_hash and has_jlap are those of
\* the previous record.
C33_NotModifiedKeepsRecord ==
    \A f \in Called :
        (Got304(f) /\ fetch[f].pc = "returned") =>
            LET previous == Unwrap(Unwrap(fetch[f].validation).state)
                returned == Unwrap(fetch[f].returned_state)
            IN /\ fetch[f].cache_result = "CacheHitAfterFetch"
               /\ statefile[Key(f)].parsed = fetch[f].returned_state
               /\ returned.url = Unwrap(fetch[f].request).url
               /\ returned.has_zst = fetch[f].has_zst
               /\ returned.has_bz2 = fetch[f].has_bz2
               /\ returned.cache_headers = previous.cache_headers
               /\ returned.cache_last_modified = previous.cache_last_modified
               /\ returned.cache_size = previous.cache_size
               /\ returned.blake2_hash = previous.blake2_hash
               /\ returned.has_jlap = previous.has_jlap
               /\ DOMAIN returned = DOMAIN previous

\* A 304 for a state record that had a hash, whose has_zst was overwritten
\* by the result of a new probe.
C33_Witness ==
    \E f \in Called :
        /\ Got304(f)
        /\ fetch[f].pc = "returned"
        /\ Unwrap(fetch[f].returned_state).blake2_hash # None
        /\ Unwrap(fetch[f].returned_state).has_zst
              # Unwrap(Unwrap(fetch[f].validation).state).has_zst

\* g validated the cache as the download of f left it: the index file f
\* persisted and the state record f stored and returned.
ValidatedAfterDownload(g, f) ==
    /\ f # g
    /\ SameKey(f, g)
    /\ Succeeded(f)
    /\ fetch[f].cache_result \in {"CacheNotPresent", "CacheOutdated"}
    /\ fetch[g].validation # None
    /\ Unwrap(fetch[g].validation).statefile.parsed = fetch[f].returned_state
    /\ Unwrap(fetch[g].validation).index
          = Some([content |-> fetch[f].written, mtime |-> fetch[f].mtime])

\* The Cache-Control value the download stored does not parse.
StoredCacheControlUnparseable(f) ==
    \E c \in Unwrap(fetch[f].returned_state).cache_headers.cache_control :
        CacheControlFromValue(c) = None

\* C34 as stated: a validation of the cache as a successful download left
\* it (the clock never goes back) gives UpToDate or OutOfDate, never
\* InvalidOrMissing or Mismatched.
C34_DownloadValidates ==
    \A f \in Fetches, g \in Fetches :
        ValidatedAfterDownload(g, f) => fetch[g].validated \in {"UpToDate", "OutOfDate"}

\* C34, amended: such a validation, if it meets no file-system error, never
\* gives InvalidOrMissing; it gives Mismatched exactly when the Cache-Control
\* value the server sent, and the download stored, does not parse, and
\* UpToDate or OutOfDate otherwise: the stored url maps back to the
\* subdirectory URL and the stored hash is the hash of the file.
C34_DownloadValidatesIfCacheControlParses ==
    \A f \in Fetches, g \in Fetches :
        (ValidatedAfterDownload(g, f) /\ fetch[g].io = "ok") =>
            /\ cached_subdir_url(Unwrap(fetch[f].returned_state).url) = fetch[g].subdir_url
            /\ Unwrap(fetch[f].returned_state).blake2_hash = Some(Blake2(fetch[f].written))
            /\ IF StoredCacheControlUnparseable(f)
               THEN fetch[g].validated = "Mismatched"
               ELSE fetch[g].validated \in {"UpToDate", "OutOfDate"}

\* A day after a download of the .zst variant, the cache validates as
\* OutOfDate.
C34_Witness ==
    \E f \in Fetches, g \in Fetches :
        /\ ValidatedAfterDownload(g, f)
        /\ fetch[g].io = "ok"
        /\ fetch[f].variant = "Zst"
        /\ Unwrap(fetch[g].validation).at > fetch[f].mtime
        /\ fetch[g].validated = "OutOfDate"

\* C35: under NoCache every successful return has CacheNotPresent, also
\* when the index file and the state file on disk were valid before the
\* call: CacheHit, CacheHitAfterFetch and CacheOutdated are never the
\* result; and both HEAD probes are sent, whatever flags the state file
\* holds.
C35_NoCacheIsNotPresent ==
    \A f \in Called :
        fetch[f].cache_action = "NoCache" =>
            /\ fetch[f].cache_result \in {"none", "CacheNotPresent"}
            /\ Succeeded(f) => fetch[f].cache_result = "CacheNotPresent"
            /\ fetch[f].request # None =>
                  /\ Count(f, "head_zst") = 1
                  /\ Count(f, "head_bz2") = 1
                  /\ ProbedAs(fetch[f].has_zst, "repodata.json.zst")
                  /\ ProbedAs(fetch[f].has_bz2, "repodata.json.bz2")

\* A NoCache call returned although the cache it found was bound to its
\* state record, which had a fresh has_zst = true: both probes were sent.
C35_Witness ==
    \E f \in Called :
        /\ fetch[f].cache_action = "NoCache"
        /\ fetch[f].pc = "returned"
        /\ fetch[f].before.index # None
        /\ fetch[f].before.statefile.parsed # None
        /\ Describes(Unwrap(fetch[f].before.statefile.parsed), fetch[f].before.index)
        /\ Unwrap(fetch[f].before.statefile.parsed).has_zst = Fresh(TRUE)
        /\ Count(f, "head_zst") = 1
        /\ Count(f, "head_bz2") = 1

\* The call is over for its caller: it returned a result or an error, or
\* the caller dropped the future.
Returned(f) == Succeeded(f) \/ fetch[f].pc = "failed" \/ fetch[f].pc = "cancelled"

\* The requests of a call: at most one HEAD per variant and one GET.
FewRequests ==
    \A f \in Fetches :
        /\ Count(f, "head_zst") <= 1
        /\ Count(f, "head_bz2") <= 1
        /\ Count(f, "get") <= 1

\* C36: every call that is not dropped eventually returns a result or an
\* error, given that the lock is granted, the requests complete or fail and
\* the body ends or errors; it sends at most two HEAD requests and at most
\* one GET.
C36_EveryFetchReturns ==
    /\ []FewRequests
    /\ \A f \in Fetches : (fetch[f].pc = "start") ~> Returned(f)

\* Every call comes to an end: it returns, is dropped, or panics.
EveryFetchEnds ==
    /\ []FewRequests
    /\ \A f \in Fetches : (fetch[f].pc = "start") ~> (Returned(f) \/ fetch[f].pc = "panicked")
====
